---- MODULE Spec2Model ----
(***************************************************************************)
(* Model of the data layer of the e-commerce platform: the Order document  *)
(* (status timeline, delivery stamp, cancellation and return queries,      *)
(* totals), the Product document (discount computation, stock), the Review *)
(* collection with the products' rating aggregate, the User document       *)
(* (password, cascading delete) and the slug of categories and products.   *)
(*                                                                         *)
(* Optional values (a field that may be undefined, an argument that may be *)
(* omitted) are sequences of length at most one: <<>> is undefined and     *)
(* <<x>> is the value x.  Dates are integers, milliseconds since an epoch. *)
(***************************************************************************)
EXTENDS Integers, Sequences, FiniteSets, TLC

VARIABLES
    order,       \* the in-memory Order document
    now,         \* the wall clock read by new Date() and Date.now()
    call,        \* the last call made on the order, with its arguments
    lastResult,  \* its outcome: "none", "ok", "ValidationError"
    totals,      \* what the last calculateTotals() call returned, if any
    product,     \* the in-memory Product document
    quote,       \* what the last calculateDiscountedPrice() call returned, and when
    storedStock, \* the stock field of the product as persisted
    copies,      \* the loaded copies of the product, each with its stock and its call in flight
    stockCall,   \* the last step of a stock operation: operation, copy, quantity, phase
    users,       \* the users collection: the ids of the stored users
    orders,      \* the orders collection
    reviews,     \* the reviews collection
    interactions, \* the user-interactions collection
    ratings,     \* the ratings field of each stored product
    storeCall,   \* the last operation on the collections, with its arguments
    storeResult, \* its outcome: "none", "ok", "ValidationError", "DuplicateKey"
    userDoc,     \* the in-memory User document
    storedPassword, \* the password field of the user as persisted, if any
    lastAssigned, \* the plaintext most recently assigned to the password this document holds
    compared,    \* what comparePassword() returned for the document as it is, if called
    entry,       \* the in-memory Category or Product document whose slug is derived
    mongoUri,    \* process.env.MONGODB_URI
    service,     \* the DatabaseService: isConnected, listener registrations, connect in flight
    readyState,  \* mongoose.connection.readyState
    handlers,    \* the runs of the SIGINT handler, each with the state of its disconnect
    exitCode,    \* how the process ended, if it did
    logged,      \* the last line written to the logger
    dbCall,      \* the last step of the database service, with its outcome
    ledger,      \* the stock two racing copies started from and the quantity they reduced
    hooks,       \* the rating hooks in flight, one per writer of reviews
    cascade      \* the user deletion in flight and how far its cascade got

orderVars == <<order, now, call, lastResult, totals, product, quote>>

stockVars == <<storedStock, copies, stockCall>>

storeVars == <<users, orders, reviews, interactions, ratings, storeCall, storeResult>>

userVars == <<userDoc, storedPassword, lastAssigned, compared>>

slugVars == <<entry>>

dbVars == <<mongoUri, service, readyState, handlers, exitCode, logged, dbCall>>

raceVars == <<ledger, hooks, cascade>>

vars == <<orderVars, stockVars, storeVars, userVars, slugVars, dbVars, raceVars>>

Undefined == <<>>

Some(x) == <<x>>

\* JavaScript truthiness of an optional string: undefined and "" are falsy.
Truthy(opt) == opt # Undefined /\ opt[1] # ""

----------------------------------------------------------------------------
(* Bounds of the model *)

\* longest timeline explored
MaxTimeline == 4

\* the clock is explored at 0..MaxDrift and at returnWindow..returnWindow + MaxDrift
MaxDrift == 1

\* most line items of an order
MaxItems == 2

\* largest quantity of a line item
MaxQuantity == 2

\* latest clock value of the discount computations
MaxClock == 4

\* largest stock explored: addToStock is not called beyond it
MaxStock == 3

\* most reviews stored at once
MaxReviews == 3

\* most orders placed while a review lives
MaxOrders == 2

\* longest name a category or a product is given
MaxNameLen == 4

\* most successful connect() calls of the database service
MaxConnects == 2

\* most runs of the SIGINT handler started
MaxHandlerRuns == 3

\* most units of stock reduced before further reductions are left out
MaxReduced == 5

----------------------------------------------------------------------------
(* Order *)

OrderStatuses ==
    {"pending", "confirmed", "processing", "shipped", "delivered", "cancelled", "refunded"}

\* Status arguments a caller can pass: the seven of the enum, and a value
\* outside it (the type is erased at run time).
StatusInputs == OrderStatuses \cup {"returned"}

\* Message arguments a caller can pass: omitted, empty, or a text.
MessageInputs == {Undefined, Some(""), Some("Left the warehouse")}

\* 7 days in milliseconds
returnWindow == 7 * 24 * 60 * 60 * 1000

ClockSteps == {1, returnWindow}

\* Timelines a caller can hand to the constructor: none, or an imported
\* history.  An entry is (status, message); its timestamp, new Date() at the
\* push, is read by none of the operations modelled and is left out.
SuppliedTimelines ==
    {<<>>, <<[status |-> "shipped", message |-> "Imported"]>>}

\* Unit prices of line items, in currency units.
Prices == {0, 1, 2500, 5000}

\* Line items: (price, quantity); the product reference and the selected
\* attributes are read by none of the operations modelled.
ItemInputs == [price : Prices, quantity : 1..MaxQuantity]

RECURSIVE ItemLists(_)
ItemLists(n) ==
    IF n = 0 THEN {<<>>}
    ELSE LET shorter == ItemLists(n - 1)
         IN  shorter \cup {Append(l, i) : l \in {x \in shorter : Len(x) = n - 1},
                                          i \in ItemInputs}

\* Pricing snapshots: none, or one whose discount is 0 (the schema default),
\* 100 or 500 currency units.
PricingInputs == {Undefined} \cup {Some([discount |-> d]) : d \in {0, 100, 500}}

getStatusMessage(status) ==
    CASE status = "pending" -> "Order is pending confirmation"
      [] status = "confirmed" -> "Order has been confirmed"
      [] status = "processing" -> "Order is being processed"
      [] status = "shipped" -> "Order has been shipped"
      [] status = "delivered" -> "Order has been delivered"
      [] status = "cancelled" -> "Order has been cancelled"
      [] status = "refunded" -> "Order has been refunded"
      [] OTHER -> "Status updated"

\* Order numbers a caller can hand to the constructor: none, or one made
\* beforehand.
OrderNumberInputs == {Undefined, Some("ORD-00000001-ABC123")}

\* generateOrderNumber(): 'ORD-', the last 8 digits of the clock, '-', 6
\* random characters; one value stands for them.
generateOrderNumber == "ORD-00000000-GENERATED"

\* pre('save'): generate the order number of a new order that has none
preSaveOrderNumber(doc) ==
    IF doc.isNew /\ ~Truthy(doc.orderNumber)
    THEN [doc EXCEPT !.orderNumber = Some(generateOrderNumber)]
    ELSE doc

\* Schema validation run by save() before the pre-save hooks: the required
\* orderNumber, the enum of orderStatus, and for each timeline entry the enum of status and the
\* required (non-empty) message.
validateOrder(doc) ==
    /\ Truthy(doc.orderNumber)
    /\ doc.orderStatus \in OrderStatuses
    /\ \A i \in 1..Len(doc.timeline) :
           /\ doc.timeline[i].status \in OrderStatuses
           /\ doc.timeline[i].message # ""

\* pre('save'): add the initial timeline entry
preSaveTimeline(doc) ==
    IF doc.isNew
    THEN [doc EXCEPT !.timeline =
              Append(@, [status |-> "pending", message |-> "Order has been placed"])]
    ELSE doc

\* doc.save(): validation, then the pre-save hooks, then the write.
saveOrder(doc) ==
    IF validateOrder(doc)
    THEN [doc |-> [preSaveTimeline(preSaveOrderNumber(doc)) EXCEPT !.isNew = FALSE],
          result |-> "ok"]
    ELSE [doc |-> doc, result |-> "ValidationError"]
\* updateStatus as it would be if it always used the canned message
updateStatus_CannedOnly(doc, status, message, t) ==
    LET timelineEntry == [status |-> status, message |-> getStatusMessage(status)]
        pushed == [doc EXCEPT !.orderStatus = status,
                              !.timeline = Append(@, timelineEntry)]
        stamped == IF status = "delivered" /\ pushed.actualDelivery = Undefined
                   THEN [pushed EXCEPT !.actualDelivery = Some(t)]
                   ELSE pushed
    IN  saveOrder(stamped)

\* updateStatus as it would be if it stamped the delivery date on every
\* transition to delivered
updateStatus_Restamps(doc, status, message, t) ==
    LET timelineEntry == [status |-> status,
                          message |-> IF Truthy(message) THEN message[1]
                                      ELSE getStatusMessage(status)]
        pushed == [doc EXCEPT !.orderStatus = status,
                              !.timeline = Append(@, timelineEntry)]
        stamped == IF status = "delivered"
                   THEN [pushed EXCEPT !.actualDelivery = Some(t)]
                   ELSE pushed
    IN  saveOrder(stamped)

\* updateStatus as it would be if cancelled and refunded were terminal
updateStatus_Terminal(doc, status, message, t) ==
    IF doc.orderStatus \in {"cancelled", "refunded"}
    THEN [doc |-> doc, result |-> "InvalidTransition"]
    ELSE LET timelineEntry == [status |-> status,
                               message |-> IF Truthy(message) THEN message[1]
                                           ELSE getStatusMessage(status)]
             pushed == [doc EXCEPT !.orderStatus = status,
                                   !.timeline = Append(@, timelineEntry)]
             stamped == IF status = "delivered" /\ pushed.actualDelivery = Undefined
                        THEN [pushed EXCEPT !.actualDelivery = Some(t)]
                        ELSE pushed
         IN  saveOrder(stamped)

\* updateStatus as it would be if a refund or a cancellation also settled the
\* payment status
updateStatus_SettlesPayment(doc, status, message, t) ==
    LET timelineEntry == [status |-> status,
                          message |-> IF Truthy(message) THEN message[1]
                                      ELSE getStatusMessage(status)]
        pushed == [doc EXCEPT !.orderStatus = status,
                              !.timeline = Append(@, timelineEntry),
                              !.paymentStatus = IF status \in {"refunded", "cancelled"}
                                                THEN status ELSE @]
        stamped == IF status = "delivered" /\ pushed.actualDelivery = Undefined
                   THEN [pushed EXCEPT !.actualDelivery = Some(t)]
                   ELSE pushed
    IN  saveOrder(stamped)

updateStatus(doc, status, message, t) ==
    LET timelineEntry == [status |-> status,
                          message |-> IF Truthy(message) THEN message[1]
                                      ELSE getStatusMessage(status)]
        pushed == [doc EXCEPT !.orderStatus = status,
                              !.timeline = Append(@, timelineEntry)]
        stamped == IF status = "delivered" /\ pushed.actualDelivery = Undefined
                   THEN [pushed EXCEPT !.actualDelivery = Some(t)]
                   ELSE pushed
    IN  saveOrder(stamped)

cancellableStatuses == {"pending", "confirmed", "processing"}
\* canBeCancelled as it would be if a shipped order could still be cancelled
canBeCancelled_Shipped(doc) == doc.orderStatus \in cancellableStatuses \cup {"shipped"}

canBeCancelled(doc) == doc.orderStatus \in cancellableStatuses
\* canBeReturned as it would be if the window excluded its last millisecond
canBeReturned_Strict(doc, t) ==
    IF doc.orderStatus # "delivered" \/ doc.actualDelivery = Undefined
    THEN FALSE
    ELSE t - doc.actualDelivery[1] < returnWindow

canBeReturned(doc, t) ==
    IF doc.orderStatus # "delivered" \/ doc.actualDelivery = Undefined
    THEN FALSE
    ELSE t - doc.actualDelivery[1] <= returnWindow

\* 16% VAT
TaxRatePercent == 16

\* free shipping above this subtotal
FreeShippingThreshold == 5000

ShippingFee == 200

\* items.reduce((sum, item) => sum + item.price * item.quantity, 0)
RECURSIVE reduceItems(_, _)
reduceItems(items, sum) ==
    IF items = <<>> THEN sum
    ELSE reduceItems(Tail(items), sum + Head(items).price * Head(items).quantity)

\* this.pricing?.discount || 0
pricingDiscount(doc) ==
    IF doc.pricing = Undefined \/ doc.pricing[1].discount = 0
    THEN 0
    ELSE doc.pricing[1].discount
\* calculateTotals as it would be if shipping were free from the threshold on
calculateTotals_FreeAtThreshold(doc) ==
    LET subtotal == reduceItems(doc.items, 0)
        tax == TaxRatePercent * subtotal
        shipping == IF subtotal >= FreeShippingThreshold THEN 0 ELSE ShippingFee
        total == 100 * subtotal + tax + 100 * shipping - 100 * pricingDiscount(doc)
    IN  [subtotal |-> 100 * subtotal,
         tax |-> tax,
         shipping |-> 100 * shipping,
         discount |-> 100 * pricingDiscount(doc),
         total |-> total]

\* Amounts returned are in hundredths of a currency unit, so that 0.16 x
\* subtotal is an integer: the arithmetic is that of the reals, not of doubles.
calculateTotals(doc) ==
    LET subtotal == reduceItems(doc.items, 0)
        tax == TaxRatePercent * subtotal
        shipping == IF subtotal > FreeShippingThreshold THEN 0 ELSE ShippingFee
        total == 100 * subtotal + tax + 100 * shipping - 100 * pricingDiscount(doc)
    IN  [subtotal |-> 100 * subtotal,
         tax |-> tax,
         shipping |-> 100 * shipping,
         discount |-> 100 * pricingDiscount(doc),
         total |-> total]

\* new Order({...}): orderStatus defaults to 'pending' and timeline to [],
\* unless the caller supplies them; actualDelivery is not set; paymentStatus
\* defaults to 'pending'; the order number, the buyer and the addresses are
\* the caller's.
NewOrder(status, timeline, items, pricing) ==
    [isNew |-> TRUE, orderStatus |-> status, timeline |-> timeline,
     actualDelivery |-> Undefined, items |-> items, pricing |-> pricing,
     orderNumber |-> Some("ORD-00000001-ABC123"), user |-> "u1",
     paymentStatus |-> "pending",
     shippingAddress |-> "12 Moi Avenue, Nairobi",
     billingAddress |-> "PO Box 40, Nairobi"]

----------------------------------------------------------------------------
(* Product *)

ProductPrices == {0, 100, 250}

DiscountTypes == {Undefined, Some("percentage"), Some("fixed"), Some("bogo")}

DiscountValues == {0, 20, 100, 150}

DiscountDates == {Undefined, Some(1), Some(3)}

\* The discount of a product: absent, or (type, value, startDate, endDate)
\* with a value; type and the two dates are optional.
DiscountInputs ==
    {Undefined} \cup
    {Some(d) : d \in [type : DiscountTypes, value : DiscountValues,
                      startDate : DiscountDates, endDate : DiscountDates]}

NewProduct(price, discount) == [price |-> price, discount |-> discount]
\* calculateDiscountedPrice as it would be if the discount ended at endDate,
\* exclusive
calculateDiscountedPrice_ExclusiveEnd(doc, t) ==
    IF doc.discount = Undefined THEN 100 * doc.price
    ELSE LET discount == doc.discount[1]
         IN  IF discount.startDate # Undefined /\ t < discount.startDate[1]
             THEN 100 * doc.price
             ELSE IF discount.endDate # Undefined /\ t >= discount.endDate[1]
             THEN 100 * doc.price
             ELSE IF discount.type = Some("percentage")
             THEN doc.price * (100 - discount.value)
             ELSE IF discount.type = Some("fixed")
             THEN 100 * (IF doc.price - discount.value > 0
                         THEN doc.price - discount.value ELSE 0)
             ELSE 100 * doc.price

\* The price returned is in hundredths of a currency unit, so that
\* price x (1 - value / 100) is an integer.
calculateDiscountedPrice(doc, t) ==
    IF doc.discount = Undefined THEN 100 * doc.price
    ELSE LET discount == doc.discount[1]
         IN  IF discount.startDate # Undefined /\ t < discount.startDate[1]
             THEN 100 * doc.price
             ELSE IF discount.endDate # Undefined /\ t > discount.endDate[1]
             THEN 100 * doc.price
             ELSE IF discount.type = Some("percentage")
             THEN doc.price * (100 - discount.value)
             ELSE IF discount.type = Some("fixed")
             THEN 100 * (IF doc.price - discount.value > 0
                         THEN doc.price - discount.value ELSE 0)
             ELSE 100 * doc.price

----------------------------------------------------------------------------
(* Product stock *)

\* The copies of the product that callers hold: each was loaded by a query and
\* is changed and saved on its own.
Copies == {"a", "b"}

\* Quantities passed to addToStock and reduceStock.
StockQuantities == 0..MaxStock

\* A copy as a query returns it: the persisted stock, no path modified, no
\* call in flight.
LoadedProduct(stock) ==
    [stock |-> stock, dirty |-> FALSE, pending |-> Undefined, result |-> "none"]

\* The schema's validator of stock: min 0.
validateStock(doc) == doc.stock >= 0

\* this.stock = value: the path is marked modified when the value changes.
setStock(doc, value) ==
    [doc EXCEPT !.stock = value, !.dirty = @ \/ value # doc.stock]

\* addToStock up to its await: the stock is raised in memory and the save is
\* in flight.
addToStock(doc, quantity) ==
    [setStock(doc, doc.stock + quantity) EXCEPT
        !.pending = Some([op |-> "addToStock", quantity |-> quantity]),
        !.result = "pending"]

reduceStock_Clamps(doc, quantity) ==
    [setStock(doc, IF doc.stock < quantity THEN 0 ELSE doc.stock - quantity) EXCEPT
        !.pending = Some([op |-> "reduceStock", quantity |-> quantity]),
        !.result = "pending"]

reduceStock_Unchecked(doc, quantity) ==
    [setStock(doc, doc.stock - quantity) EXCEPT
        !.pending = Some([op |-> "reduceStock", quantity |-> quantity]),
        !.result = "pending"]

\* reduceStock up to its await: it throws before touching the document when
\* the copy's stock is below the quantity; otherwise the stock is lowered in
\* memory and the save is in flight.
reduceStock(doc, quantity) ==
    IF doc.stock < quantity
    THEN [doc EXCEPT !.result = "Insufficient stock"]
    ELSE [setStock(doc, doc.stock - quantity) EXCEPT
            !.pending = Some([op |-> "reduceStock", quantity |-> quantity]),
            !.result = "pending"]

saveStock_Decrements(doc, stored) ==
    IF ~validateStock(doc)
    THEN [doc |-> [doc EXCEPT !.pending = Undefined, !.result = "ValidationError"],
          stored |-> stored]
    ELSE [doc |-> [doc EXCEPT !.pending = Undefined, !.result = "ok", !.dirty = FALSE],
          stored |-> IF doc.pending[1].op = "reduceStock"
                     THEN stored - doc.pending[1].quantity
                     ELSE stored + doc.pending[1].quantity]

\* The save a stock method awaits: validation, then a write of the modified
\* path only.  A failed validation writes nothing and keeps the path modified.
saveStock(doc, stored) ==
    IF ~validateStock(doc)
    THEN [doc |-> [doc EXCEPT !.pending = Undefined, !.result = "ValidationError"],
          stored |-> stored]
    ELSE [doc |-> [doc EXCEPT !.pending = Undefined, !.result = "ok", !.dirty = FALSE],
          stored |-> IF doc.dirty THEN doc.stock ELSE stored]

\* The stock variables of a product nobody is operating on.
StockIdle ==
    /\ storedStock = 0
    /\ copies = [c \in Copies |-> LoadedProduct(0)]
    /\ stockCall = [op |-> "none"]

----------------------------------------------------------------------------
(* Reviews, the products' rating aggregate, and the records of a user *)

Users == {"u1", "u2", "u3"}

Products == {"p1", "p2"}

\* Ratings a caller can submit: two inside the schema's range 1..5 and one
\* above it.
RatingInputs == {2, 4, 6}

\* The submitted ratings that pass validation.
ValidRatings == {rating \in RatingInputs : rating >= 1 /\ rating <= 5}

\* A rating aggregate holds its average in tenths (30 is 3.0), so that the
\* one-decimal rounding is exact integer arithmetic.
NoRatings == [average |-> 0, count |-> 0]

\* find({ product, isApproved: true })
approvedReviews(revs, p) == {r \in revs : r.product = p /\ r.isApproved}

RECURSIVE totalRating(_)
\* reviews.reduce((sum, review) => sum + review.rating, 0)
totalRating(revs) ==
    IF revs = {} THEN 0
    ELSE LET r == CHOOSE x \in revs : TRUE
         IN  r.rating + totalRating(revs \ {r})

\* Math.round(total / n * 10) / 10, in tenths: Math.round rounds a half up.
roundedAverage(total, n) == (20 * total + n) \div (2 * n)

recomputeRatings_CountsAll(revs, p) ==
    LET found == {r \in revs : r.product = p}
    IN  [average |-> IF found = {} THEN 0
                     ELSE roundedAverage(totalRating(found), Cardinality(found)),
         count |-> Cardinality(found)]

\* The body of the post('save') and post('deleteOne') hooks: the aggregate of
\* product p from the approved reviews of p stored now.
recomputeRatings(revs, p) ==
    LET found == approvedReviews(revs, p)
    IN  [average |-> IF found = {} THEN 0
                     ELSE roundedAverage(totalRating(found), Cardinality(found)),
         count |-> Cardinality(found)]

\* The schema's validators of a review: rating within 1..5.
validateReview(doc) == doc.rating >= 1 /\ doc.rating <= 5

\* isVerifiedPurchase: the author has a delivered order with the product.
isVerifiedPurchase(ords, u, p) ==
    \E o \in ords : o.user = u /\ p \in o.products /\ o.orderStatus = "delivered"

\* The unique index on (user, product) rejects a second review of the pair.
duplicateKey(revs, doc) ==
    \E r \in revs : r.user = doc.user /\ r.product = doc.product

\* new Review({...}): helpful 0 and helpfulBy [] by default.
NewReview(u, p, rating, approved, verified) ==
    [user |-> u, product |-> p, rating |-> rating, isApproved |-> approved,
     verified |-> verified, helpful |-> 0, helpfulBy |-> <<>>]

preSaveReview_Always(doc, isNew, ords) ==
    [doc EXCEPT !.verified = isVerifiedPurchase(ords, doc.user, doc.product)]

\* The pre('save') hook: a new review gets its verified flag from the orders
\* stored now, whatever the caller supplied; a stored review keeps its flag.
preSaveReview(doc, isNew, ords) ==
    IF isNew
    THEN [doc EXCEPT !.verified = isVerifiedPurchase(ords, doc.user, doc.product)]
    ELSE doc

createReview_NoIndex(revs, rates, ords, doc) ==
    IF ~validateReview(doc)
    THEN [reviews |-> revs, ratings |-> rates, result |-> "ValidationError"]
    ELSE LET saved == preSaveReview(doc, TRUE, ords)
             after == revs \cup {saved}
         IN  [reviews |-> after,
              ratings |-> [rates EXCEPT ![doc.product] = recomputeRatings(after, doc.product)],
              result |-> "ok"]

\* save() of a new review: validation, the pre('save') hook that sets
\* verified, the insert that the unique index can reject, and the post('save')
\* hook that recomputes the product's aggregate.
createReview(revs, rates, ords, doc) ==
    IF ~validateReview(doc)
    THEN [reviews |-> revs, ratings |-> rates, result |-> "ValidationError"]
    ELSE LET saved == preSaveReview(doc, TRUE, ords)
             after == revs \cup {saved}
         IN  IF duplicateKey(revs, saved)
             THEN [reviews |-> revs, ratings |-> rates, result |-> "DuplicateKey"]
             ELSE [reviews |-> after,
                   ratings |-> [rates EXCEPT ![doc.product] = recomputeRatings(after, doc.product)],
                   result |-> "ok"]

\* save() of a stored review after a change of its fields: validation, the
\* pre('save') hook, the write, and the post('save') hook.
updateReview(revs, rates, ords, old, doc) ==
    IF ~validateReview(doc)
    THEN [reviews |-> revs, ratings |-> rates, result |-> "ValidationError"]
    ELSE LET saved == preSaveReview(doc, FALSE, ords)
             after == (revs \ {old}) \cup {saved}
         IN  [reviews |-> after,
              ratings |-> [rates EXCEPT ![doc.product] = recomputeRatings(after, doc.product)],
              result |-> "ok"]

\* helpfulBy.includes(userObjectId): a Mongoose array compares ObjectIds by
\* value.
includes(list, v) == \E i \in 1..Len(list) : list[i] = v

markAsHelpful_AlwaysCounts(revs, rates, ords, old, v) ==
    updateReview(revs, rates, ords, old,
                 [old EXCEPT !.helpfulBy = Append(@, v), !.helpful = @ + 1])

markAsHelpful_CountsRepeat(revs, rates, ords, old, v) ==
    IF ~includes(old.helpfulBy, v)
    THEN updateReview(revs, rates, ords, old,
                      [old EXCEPT !.helpfulBy = Append(@, v), !.helpful = @ + 1])
    ELSE updateReview(revs, rates, ords, old, [old EXCEPT !.helpful = @ + 1])

\* markAsHelpful(userId) on a stored review: a user not yet in helpfulBy is
\* appended, helpful is raised by one and the review is saved; for a user
\* already in it nothing is changed and nothing is saved.
markAsHelpful(revs, rates, ords, old, v) ==
    IF ~includes(old.helpfulBy, v)
    THEN updateReview(revs, rates, ords, old,
                      [old EXCEPT !.helpfulBy = Append(@, v), !.helpful = @ + 1])
    ELSE [reviews |-> revs, ratings |-> rates, result |-> "ok"]

\* review.deleteOne(): the removal and the post('deleteOne') document hook.
deleteReview(revs, rates, old) ==
    LET after == revs \ {old}
    IN  [reviews |-> after,
         ratings |-> [rates EXCEPT ![old.product] = recomputeRatings(after, old.product)],
         result |-> "ok"]

deleteUser_KeepsInteractions(us, ords, revs, ints, u) ==
    [users |-> us \ {u},
     orders |-> {o \in ords : o.user # u},
     reviews |-> {r \in revs : r.user # u},
     interactions |-> ints]

\* user.deleteOne(): the pre('deleteOne') document hook deletes the user's
\* orders, reviews and interactions with deleteMany, which runs no document
\* hook of the deleted records; then the user is removed.
deleteUser(us, ords, revs, ints, u) ==
    [users |-> us \ {u},
     orders |-> {o \in ords : o.user # u},
     reviews |-> {r \in revs : r.user # u},
     interactions |-> {i \in ints : i.userId # u}]

\* The collections with nothing stored.
StoreIdle ==
    /\ users = {}
    /\ orders = {}
    /\ reviews = {}
    /\ interactions = {}
    /\ ratings = [p \in Products |-> NoRatings]
    /\ storeCall = [op |-> "none"]
    /\ storeResult = "none"

----------------------------------------------------------------------------
(* User password *)

\* A password value is the plaintext it was made from and the number of times
\* bcrypt.hash was applied to it: 0 rounds is the plaintext itself, 1 its
\* hash, 2 the hash of its hash.  Hashes of different values differ.
Plain(text) == [plain |-> text, rounds |-> 0]

\* bcrypt.hash(value, saltRounds)
bcryptHash(value) == [value EXCEPT !.rounds = @ + 1]

\* bcrypt.compare(candidate, value): the value is the hash of the candidate.
\* A plaintext or a hash of a hash matches no candidate plaintext.
bcryptCompare(candidate, value) == value = bcryptHash(Plain(candidate))

\* Plaintexts a caller assigns or tries; the last is shorter than minlength 6.
Plaintexts == {"secret1", "hunter22", "pa55word!", "abc"}

\* The length the minlength validator sees: a bcrypt hash has 60 characters.
passwordLength(value) ==
    IF value.rounds > 0 THEN 60
    ELSE IF value.plain = "secret1" THEN 7
    ELSE IF value.plain = "hunter22" THEN 8
    ELSE IF value.plain = "pa55word!" THEN 9
    ELSE 3

\* The schema's validators of password: minlength 6.
validateUser(doc) == passwordLength(doc.password) >= 6

\* new User({ password }): every path set is modified.
NewUser(text) ==
    [password |-> Plain(text), modified |-> TRUE, profileDirty |-> TRUE, result |-> "none"]

\* user.password = text: the path is marked modified when the value changes.
setPassword(doc, text) ==
    [doc EXCEPT !.password = Plain(text),
                !.modified = @ \/ doc.password # Plain(text),
                !.result = "none"]

preSaveUser_AlwaysHashes(doc) ==
    [doc EXCEPT !.password = bcryptHash(@)]

\* The pre('save') hook: the password is hashed only when its path is
\* modified.
preSaveUser(doc) ==
    IF ~doc.modified THEN doc
    ELSE [doc EXCEPT !.password = bcryptHash(@)]

\* user.save(): validation, the pre('save') hook, the write of the document,
\* after which no path is modified.
saveUser(doc, stored) ==
    IF ~validateUser(doc)
    THEN [doc |-> [doc EXCEPT !.result = "ValidationError"], stored |-> stored]
    ELSE LET hashed == preSaveUser(doc)
         IN  [doc |-> [hashed EXCEPT !.modified = FALSE, !.profileDirty = FALSE,
                                     !.result = "ok"],
              stored |-> Some(hashed.password)]

\* comparePassword(candidate) on the document
comparePassword(doc, candidate) == bcryptCompare(candidate, doc.password)

\* The user variables of a user nobody is operating on.
UserIdle ==
    /\ userDoc = NewUser("secret1")
    /\ storedPassword = Undefined
    /\ lastAssigned = "secret1"
    /\ compared = Undefined

----------------------------------------------------------------------------
(* Slug of a category or a product *)

\* A string is the sequence of its characters; "E-acute" and "e-acute" stand
\* for the single characters U+00C9 and U+00E9.
UpperCase ==
    <<"A", "B", "C", "D", "E", "F", "G", "H", "I", "J", "K", "L", "M",
      "N", "O", "P", "Q", "R", "S", "T", "U", "V", "W", "X", "Y", "Z", "E-acute">>

LowerCase ==
    <<"a", "b", "c", "d", "e", "f", "g", "h", "i", "j", "k", "l", "m",
      "n", "o", "p", "q", "r", "s", "t", "u", "v", "w", "x", "y", "z", "e-acute">>

Digits == {"0", "1", "2", "3", "4", "5", "6", "7", "8", "9"}

\* The characters names are made of: a lower-case and an upper-case letter, a
\* digit, a hyphen, a space and a letter outside ASCII.
NameChars == {"a", "B", "7", "-", " ", "E-acute"}

RECURSIVE Strings(_)
\* the strings over NameChars of length n or less
Strings(n) ==
    IF n = 0 THEN {<<>>}
    ELSE LET shorter == Strings(n - 1)
         IN  shorter \cup {Append(str, c) : str \in shorter, c \in NameChars}

\* String.prototype.toLowerCase, one character
lowerChar(c) ==
    IF \E i \in 1..Len(UpperCase) : UpperCase[i] = c
    THEN LowerCase[CHOOSE i \in 1..Len(UpperCase) : UpperCase[i] = c]
    ELSE c

\* String.prototype.toLowerCase
toLowerCase(str) == [i \in 1..Len(str) |-> lowerChar(str[i])]

\* the character class [a-z0-9]
isSlugChar(c) == c \in {LowerCase[i] : i \in 1..26} \cup Digits

RECURSIVE skipRun(_)
\* the rest of the string after the run of characters outside [a-z0-9] at its start
skipRun(str) ==
    IF str # <<>> /\ ~isSlugChar(Head(str)) THEN skipRun(Tail(str)) ELSE str

RECURSIVE replaceRuns_EachChar(_)
replaceRuns_EachChar(str) ==
    IF str = <<>> THEN <<>>
    ELSE IF isSlugChar(Head(str)) THEN <<Head(str)>> \o replaceRuns_EachChar(Tail(str))
    ELSE <<"-">> \o replaceRuns_EachChar(Tail(str))

RECURSIVE replaceRuns(_)
\* .replace(/[^a-z0-9]+/g, '-'): every maximal run of characters outside
\* [a-z0-9] becomes one hyphen
replaceRuns(str) ==
    IF str = <<>> THEN <<>>
    ELSE IF isSlugChar(Head(str)) THEN <<Head(str)>> \o replaceRuns(Tail(str))
    ELSE <<"-">> \o replaceRuns(skipRun(str))

\* .replace(/(^-|-$)/g, ''): a hyphen at the start and a hyphen at the end are
\* removed
stripEdges(str) ==
    LET rest == IF str # <<>> /\ Head(str) = "-" THEN Tail(str) ELSE str
    IN  IF rest # <<>> /\ rest[Len(rest)] = "-"
        THEN SubSeq(rest, 1, Len(rest) - 1)
        ELSE rest

\* The slug the pre('save') hooks of Category and Product derive from a name.
slugify(name) == stripEdges(replaceRuns(toLowerCase(name)))

RECURSIVE trimStart(_)
trimStart(str) ==
    IF str # <<>> /\ Head(str) = " " THEN trimStart(Tail(str)) ELSE str

RECURSIVE trimEnd(_)
trimEnd(str) ==
    IF str # <<>> /\ str[Len(str)] = " " THEN trimEnd(SubSeq(str, 1, Len(str) - 1)) ELSE str

\* the schema option trim: true
trim(str) == trimEnd(trimStart(str))

\* The setters of a slug field: lowercase: true, trim: true.
setSlug(str) == trim(toLowerCase(str))

\* JavaScript truthiness of an optional string held as a sequence.
hasSlug(opt) == opt # Undefined /\ opt[1] # <<>>

\* new Category({ name, slug }) or new Product({ name, seoData: { slug } }): the
\* name is trimmed, a supplied slug goes through its setters.
NewEntry(kind, name, slug) ==
    [kind |-> kind, name |-> trim(name),
     slug |-> IF slug = Undefined THEN Undefined ELSE Some(setSlug(slug[1])),
     nameModified |-> TRUE, result |-> "none"]

\* doc.name = name: the path is marked modified when the value changes.
setName(doc, name) ==
    [doc EXCEPT !.name = trim(name),
                !.nameModified = @ \/ trim(name) # doc.name,
                !.result = "none"]

\* The schema's validators of a name: required.
validateEntry(doc) == doc.name # <<>>

preSaveCategory_OnEveryRename(doc) ==
    IF doc.nameModified
    THEN [doc EXCEPT !.slug = Some(setSlug(slugify(doc.name)))]
    ELSE doc

\* categorySchema.pre('save')
preSaveCategory(doc) ==
    IF doc.nameModified /\ ~hasSlug(doc.slug)
    THEN [doc EXCEPT !.slug = Some(setSlug(slugify(doc.name)))]
    ELSE doc

\* productSchema.pre('save'), on seoData.slug
preSaveProduct(doc) ==
    IF doc.nameModified /\ ~hasSlug(doc.slug)
    THEN [doc EXCEPT !.slug = Some(setSlug(slugify(doc.name)))]
    ELSE doc

\* save() of a category or a product: validation, the pre('save') hook, the
\* write, after which no path is modified.
saveEntry(doc) ==
    IF ~validateEntry(doc)
    THEN [doc EXCEPT !.result = "ValidationError"]
    ELSE [(IF doc.kind = "category" THEN preSaveCategory(doc) ELSE preSaveProduct(doc))
            EXCEPT !.nameModified = FALSE, !.result = "ok"]

\* The slug variable when no document is being named.
SlugIdle == entry = NewEntry("category", <<"a">>, Undefined)

----------------------------------------------------------------------------
(* Database service *)

\* new DatabaseService(): not connected, nothing registered.
NewService == [isConnected |-> FALSE, listeners |-> 0, connecting |-> FALSE]

\* Values of process.env.MONGODB_URI: unset, empty, set.
UriInputs == {Undefined, Some(""), Some("mongodb://db/shop")}

\* getConnectionStatus()
getConnectionStatus(svc, rs) == svc.isConnected /\ rs = 1

connect_NoUriCheck(uri, svc, rs, log) ==
    [service |-> [svc EXCEPT !.connecting = TRUE],
     readyState |-> IF rs = 1 THEN 1 ELSE 2,
     logged |-> log, result |-> "pending"]

\* connect() up to its await: with no connection string it throws, the catch
\* logs and rethrows, and mongoose.connect is never called; otherwise the
\* connection attempt is in flight.
connect(uri, svc, rs, log) ==
    IF ~Truthy(uri)
    THEN [service |-> svc, readyState |-> rs,
          logged |-> "Failed to connect to MongoDB", result |-> "error"]
    ELSE [service |-> [svc EXCEPT !.connecting = TRUE],
          readyState |-> IF rs = 1 THEN 1 ELSE 2,
          logged |-> log, result |-> "pending"]

\* connect() after its await: on success isConnected is set, the success is
\* logged and setupEventListeners registers the connection listeners and a
\* SIGINT listener once more; on failure the catch logs and rethrows.
connectSettled(svc, rs, outcome) ==
    IF outcome = "ok"
    THEN [service |-> [isConnected |-> TRUE, listeners |-> svc.listeners + 1,
                       connecting |-> FALSE],
          readyState |-> 1,
          logged |-> "Successfully connected to MongoDB", result |-> "ok"]
    ELSE [service |-> [svc EXCEPT !.connecting = FALSE],
          readyState |-> IF rs = 2 THEN 0 ELSE rs,
          logged |-> "Failed to connect to MongoDB", result |-> "error"]

\* disconnect() after its await: on success isConnected is cleared and the
\* disconnection logged; on failure the catch logs and rethrows.
disconnectSettled(svc, rs, outcome) ==
    IF outcome = "ok"
    THEN [service |-> [svc EXCEPT !.isConnected = FALSE], readyState |-> 0,
          logged |-> "Disconnected from MongoDB", result |-> "ok"]
    ELSE [service |-> svc, readyState |-> rs,
          logged |-> "Error disconnecting from MongoDB", result |-> "error"]

onSigint_ExitsAtOnce(svc, runs, rs) ==
    [handlers |-> runs \o [i \in 1..svc.listeners |-> "disconnecting"],
     readyState |-> rs,
     exitCode |-> Some(0)]

\* SIGINT arrives: every registered SIGINT listener starts and calls
\* disconnect(), which is in flight; with no listener registered the signal
\* ends the process (status 128 + 2).
onSigint(svc, runs, rs) ==
    IF svc.listeners = 0
    THEN [handlers |-> runs, readyState |-> rs, exitCode |-> Some(130)]
    ELSE [handlers |-> runs \o [i \in 1..svc.listeners |-> "disconnecting"],
          readyState |-> IF rs = 0 THEN 0 ELSE 3,
          exitCode |-> Undefined]

\* The SIGINT listener after its await: process.exit(0) when disconnect()
\* returned, process.exit(1) when it threw.
sigintExit(result) == IF result = "ok" THEN 0 ELSE 1

\* The database variables of a process that never called the service.
DbIdle ==
    /\ mongoUri = Undefined
    /\ service = NewService
    /\ readyState = 0
    /\ handlers = <<>>
    /\ exitCode = Undefined
    /\ logged = "none"
    /\ dbCall = [op |-> "none"]

----------------------------------------------------------------------------
(* Operations in flight: racing stock reductions, rating hooks, the cascade
   of a user deletion *)

\* The users whose review writes overlap.
Writers == {"u1", "u2"}

\* A rating hook that is not running.
IdleHook == [pc |-> "idle", product |-> "none", loaded |-> NoRatings, found |-> NoRatings]

\* The hook that starts when a review write succeeded.
StartedHook(p) == [pc |-> "wrote", product |-> p, loaded |-> NoRatings, found |-> NoRatings]

saveRatings_KeepsStored(stored, loaded, found, mode) == stored

\* product.ratings = {...}; await product.save() in a rating hook: the save
\* writes what the assignment marked modified against the product as the hook
\* loaded it, either each changed path of ratings or ratings as a whole when
\* it changed; what is persisted meanwhile is not read.
saveRatings(stored, loaded, found, mode) ==
    IF mode = "whole"
    THEN IF found = loaded THEN stored ELSE found
    ELSE [average |-> IF found.average = loaded.average THEN stored.average
                      ELSE found.average,
          count |-> IF found.count = loaded.count THEN stored.count ELSE found.count]

\* The step that follows a step of a user deletion.
nextStep(step) ==
    IF step = "orders" THEN "reviews"
    ELSE IF step = "reviews" THEN "interactions"
    ELSE IF step = "interactions" THEN "remove"
    ELSE "idle"

cascadeStep_Continues(step, outcome, us, ords, revs, ints, u) ==
    [step |-> nextStep(step),
     users |-> IF step = "remove" /\ outcome = "ok" THEN us \ {u} ELSE us,
     orders |-> IF step = "orders" /\ outcome = "ok"
                THEN {o \in ords : o.user # u} ELSE ords,
     reviews |-> IF step = "reviews" /\ outcome = "ok"
                 THEN {r \in revs : r.user # u} ELSE revs,
     interactions |-> IF step = "interactions" /\ outcome = "ok"
                      THEN {i \in ints : i.userId # u} ELSE ints,
     result |-> IF step = "remove" THEN outcome ELSE "pending"]

\* One await of user.deleteOne() settles: the deleteMany of the orders, of
\* the reviews, of the interactions, then, after next(), the removal of the
\* user.  A rejected await goes to the catch, which hands the error to
\* next(error): the deletion ends with the error and nothing further runs.
cascadeStep(step, outcome, us, ords, revs, ints, u) ==
    IF outcome # "ok"
    THEN [step |-> "idle", users |-> us, orders |-> ords, reviews |-> revs,
          interactions |-> ints, result |-> "error"]
    ELSE [step |-> nextStep(step),
          users |-> IF step = "remove" THEN us \ {u} ELSE us,
          orders |-> IF step = "orders" THEN {o \in ords : o.user # u} ELSE ords,
          reviews |-> IF step = "reviews" THEN {r \in revs : r.user # u} ELSE revs,
          interactions |-> IF step = "interactions"
                           THEN {i \in ints : i.userId # u} ELSE ints,
          result |-> IF step = "remove" THEN "ok" ELSE "pending"]

\* Nothing in flight.
RaceIdle ==
    /\ ledger = [start |-> 0, reduced |-> 0]
    /\ hooks = [w \in Writers |-> IdleHook]
    /\ cascade = [step |-> "idle", user |-> "none"]

----------------------------------------------------------------------------
(* The order's life: construction, save, status updates, the clock *)

OrderInit ==
    /\ \E s \in OrderStatuses, tl \in SuppliedTimelines, n \in OrderNumberInputs :
           order = [NewOrder(s, tl, <<[price |-> 2500, quantity |-> 2]>>,
                             Some([discount |-> 0]))
                       EXCEPT !.orderNumber = n]
    /\ now = 0
    /\ call = [op |-> "new"]
    /\ lastResult = "none"
    /\ totals = Undefined
    /\ product = NewProduct(100, Undefined)
    /\ quote = Undefined
    /\ StockIdle
    /\ StoreIdle
    /\ UserIdle
    /\ SlugIdle
    /\ DbIdle
    /\ RaceIdle

\* order.save()
Save ==
    /\ Len(order.timeline) < MaxTimeline
    /\ call' = [op |-> "save"]
    /\ LET r == saveOrder(order)
       IN  /\ order' = r.doc
           /\ lastResult' = r.result
    /\ UNCHANGED <<now, totals, product, quote, stockVars, storeVars, userVars, slugVars, dbVars, raceVars>>

\* order.updateStatus(status, message)
UpdateStatus(status, message) ==
    /\ Len(order.timeline) + (IF order.isNew THEN 2 ELSE 1) <= MaxTimeline
    /\ call' = [op |-> "updateStatus", status |-> status, message |-> message]
    /\ LET r == updateStatus(order, status, message, now)
       IN  /\ order' = r.doc
           /\ lastResult' = r.result
    /\ UNCHANGED <<now, totals, product, quote, stockVars, storeVars, userVars, slugVars, dbVars, raceVars>>

\* time passes
Tick(d) ==
    /\ now + d <= returnWindow + MaxDrift
    /\ (now + d) % returnWindow <= MaxDrift
    /\ now' = now + d
    /\ UNCHANGED <<order, call, lastResult, totals, product, quote, stockVars, storeVars, userVars, slugVars, dbVars, raceVars>>

Init == OrderInit

Next ==
    \/ Save
    \/ \E s \in StatusInputs, m \in MessageInputs : UpdateStatus(s, m)
    \/ \E d \in ClockSteps : Tick(d)

Spec == Init /\ [][Next]_vars

----------------------------------------------------------------------------
(* calculateTotals over the orders a caller can build *)

TotalsInit ==
    /\ \E items \in ItemLists(MaxItems), pricing \in PricingInputs :
           order = NewOrder("pending", <<>>, items, pricing)
    /\ now = 0
    /\ call = [op |-> "new"]
    /\ lastResult = "none"
    /\ totals = Undefined
    /\ product = NewProduct(100, Undefined)
    /\ quote = Undefined
    /\ StockIdle
    /\ StoreIdle
    /\ UserIdle
    /\ SlugIdle
    /\ DbIdle
    /\ RaceIdle

\* order.calculateTotals()
CalculateTotals ==
    /\ totals' = Some(calculateTotals(order))
    /\ UNCHANGED <<order, now, call, lastResult, product, quote, stockVars, storeVars, userVars, slugVars, dbVars, raceVars>>

TotalsNext == CalculateTotals

SpecTotals == TotalsInit /\ [][TotalsNext]_vars

----------------------------------------------------------------------------
(* calculateDiscountedPrice over the products a caller can build *)

DiscountInit ==
    /\ \E price \in ProductPrices, discount \in DiscountInputs :
           product = NewProduct(price, discount)
    /\ now = 0
    /\ quote = Undefined
    /\ order = NewOrder("pending", <<>>, <<>>, Undefined)
    /\ call = [op |-> "new"]
    /\ lastResult = "none"
    /\ totals = Undefined
    /\ StockIdle
    /\ StoreIdle
    /\ UserIdle
    /\ SlugIdle
    /\ DbIdle
    /\ RaceIdle

\* product.calculateDiscountedPrice(), which reads the clock
CalculateDiscountedPrice ==
    /\ quote' = Some([at |-> now, price |-> calculateDiscountedPrice(product, now)])
    /\ UNCHANGED <<order, now, call, lastResult, totals, product, stockVars, storeVars, userVars, slugVars, dbVars, raceVars>>

\* time passes
DiscountTick ==
    /\ now < MaxClock
    /\ now' = now + 1
    /\ UNCHANGED <<order, call, lastResult, totals, product, quote, stockVars, storeVars, userVars, slugVars, dbVars, raceVars>>

DiscountNext ==
    \/ CalculateDiscountedPrice
    \/ DiscountTick

SpecDiscount == DiscountInit /\ [][DiscountNext]_vars

----------------------------------------------------------------------------
(* Stock operations on loaded copies of one product, interleaved at their
   awaits *)

\* The variables of the other concerns, pinned.
OrderIdle ==
    /\ order = NewOrder("pending", <<>>, <<>>, Undefined)
    /\ now = 0
    /\ call = [op |-> "new"]
    /\ lastResult = "none"
    /\ totals = Undefined
    /\ product = NewProduct(100, Undefined)
    /\ quote = Undefined

StockInit ==
    /\ storedStock \in 0..MaxStock
    /\ copies = [c \in Copies |-> LoadedProduct(storedStock)]
    /\ stockCall = [op |-> "none"]
    /\ OrderIdle
    /\ StoreIdle
    /\ UserIdle
    /\ SlugIdle
    /\ DbIdle
    /\ RaceIdle

\* Product.findById(): the copy is replaced by the persisted document
LoadProduct(c) ==
    /\ copies[c].pending = Undefined
    /\ copies' = [copies EXCEPT ![c] = LoadedProduct(storedStock)]
    /\ stockCall' = [op |-> "load", copy |-> c, quantity |-> 0, phase |-> "called"]
    /\ UNCHANGED <<storedStock, orderVars, storeVars, userVars, slugVars, dbVars, raceVars>>

\* copy.addToStock(quantity), up to its await
AddToStock(c, quantity) ==
    /\ copies[c].pending = Undefined
    /\ copies[c].stock + quantity <= MaxStock
    /\ copies' = [copies EXCEPT ![c] = addToStock(@, quantity)]
    /\ stockCall' = [op |-> "addToStock", copy |-> c, quantity |-> quantity,
                     phase |-> "called"]
    /\ UNCHANGED <<storedStock, orderVars, storeVars, userVars, slugVars, dbVars, raceVars>>

\* copy.reduceStock(quantity), up to its await or its throw
ReduceStock(c, quantity) ==
    /\ copies[c].pending = Undefined
    /\ copies' = [copies EXCEPT ![c] = reduceStock(@, quantity)]
    /\ stockCall' = [op |-> "reduceStock", copy |-> c, quantity |-> quantity,
                     phase |-> "called"]
    /\ UNCHANGED <<storedStock, orderVars, storeVars, userVars, slugVars, dbVars, raceVars>>

\* the save a copy's stock method awaits completes
CompleteSave(c) ==
    /\ copies[c].pending # Undefined
    /\ LET r == saveStock(copies[c], storedStock)
       IN  /\ copies' = [copies EXCEPT ![c] = r.doc]
           /\ storedStock' = r.stored
    /\ stockCall' = [op |-> copies[c].pending[1].op, copy |-> c,
                     quantity |-> copies[c].pending[1].quantity, phase |-> "saved"]
    /\ UNCHANGED <<orderVars, storeVars, userVars, slugVars, dbVars, raceVars>>

StockNext ==
    \/ \E c \in Copies : LoadProduct(c)
    \/ \E c \in Copies, q \in StockQuantities : AddToStock(c, q)
    \/ \E c \in Copies, q \in StockQuantities : ReduceStock(c, q)
    \/ \E c \in Copies : CompleteSave(c)

SpecStock == StockInit /\ [][StockNext]_vars

----------------------------------------------------------------------------
(* Review creation, update and deletion and user deletion, one operation at
   a time *)

\* The orders stored when the reviews are written.
StoredOrders ==
    {[id |-> 1, user |-> "u1", products |-> {"p1"}, orderStatus |-> "delivered"],
     [id |-> 2, user |-> "u1", products |-> {"p2"}, orderStatus |-> "pending"],
     [id |-> 3, user |-> "u2", products |-> {"p1", "p2"}, orderStatus |-> "delivered"],
     [id |-> 4, user |-> "u3", products |-> {"p2"}, orderStatus |-> "cancelled"]}

ReviewsInit ==
    /\ users = Users
    /\ orders = StoredOrders
    /\ reviews = {}
    /\ interactions = [userId : Users, product : {"p1"}]
    /\ ratings = [p \in Products |-> NoRatings]
    /\ storeCall = [op |-> "none"]
    /\ storeResult = "none"
    /\ OrderIdle
    /\ StockIdle
    /\ UserIdle
    /\ SlugIdle
    /\ DbIdle
    /\ RaceIdle

\* new Review({...}).save() by a stored user
CreateReview(u, p, rating, approved, verified) ==
    /\ u \in users
    /\ LET r == createReview(reviews, ratings, orders, NewReview(u, p, rating, approved, verified))
       IN  /\ Cardinality(r.reviews) <= MaxReviews
           /\ reviews' = r.reviews
           /\ ratings' = r.ratings
           /\ storeResult' = r.result
    /\ storeCall' = [op |-> "create", user |-> u, product |-> p]
    /\ UNCHANGED <<users, orders, interactions, orderVars, stockVars, userVars, slugVars, dbVars, raceVars>>

\* a stored review is loaded, its rating and approval are set, and it is saved
UpdateReview(old, rating, approved) ==
    /\ old \in reviews
    /\ LET r == updateReview(reviews, ratings, orders, old,
                             [old EXCEPT !.rating = rating, !.isApproved = approved])
       IN  /\ reviews' = r.reviews
           /\ ratings' = r.ratings
           /\ storeResult' = r.result
    /\ storeCall' = [op |-> "update", user |-> old.user, product |-> old.product]
    /\ UNCHANGED <<users, orders, interactions, orderVars, stockVars, userVars, slugVars, dbVars, raceVars>>

\* a stored review is loaded and review.deleteOne() is called
DeleteReview(old) ==
    /\ old \in reviews
    /\ LET r == deleteReview(reviews, ratings, old)
       IN  /\ reviews' = r.reviews
           /\ ratings' = r.ratings
           /\ storeResult' = r.result
    /\ storeCall' = [op |-> "delete", user |-> old.user, product |-> old.product]
    /\ UNCHANGED <<users, orders, interactions, orderVars, stockVars, userVars, slugVars, dbVars, raceVars>>

\* a stored user is loaded and user.deleteOne() is called
DeleteUser(u) ==
    /\ u \in users
    /\ LET r == deleteUser(users, orders, reviews, interactions, u)
       IN  /\ users' = r.users
           /\ orders' = r.orders
           /\ reviews' = r.reviews
           /\ interactions' = r.interactions
    /\ storeResult' = "ok"
    /\ storeCall' = [op |-> "deleteUser", user |-> u, product |-> "none"]
    /\ UNCHANGED <<ratings, orderVars, stockVars, userVars, slugVars, dbVars, raceVars>>

ReviewsNext ==
    \/ \E u \in Users, p \in Products, rating \in ValidRatings, approved \in BOOLEAN :
          CreateReview(u, p, rating, approved, FALSE)
    \/ \E old \in reviews, rating \in ValidRatings, approved \in BOOLEAN :
          UpdateReview(old, rating, approved)
    \/ \E old \in reviews : DeleteReview(old)
    \/ \E u \in Users : DeleteUser(u)

SpecReviews == ReviewsInit /\ [][ReviewsNext]_vars

----------------------------------------------------------------------------
(* The life of one author's review of one product, while the author's orders
   come and go and users mark the review as helpful *)

\* The users who mark the review as helpful; the first is its author.
Voters == {"u1", "u2"}

\* The statuses the author's orders are moved through.
LifeStatuses == {"pending", "delivered", "refunded"}

ReviewLifeInit ==
    /\ users = Voters
    /\ orders = {}
    /\ reviews = {}
    /\ interactions = {}
    /\ ratings = [p \in Products |-> NoRatings]
    /\ storeCall = [op |-> "none"]
    /\ storeResult = "none"
    /\ OrderIdle
    /\ StockIdle
    /\ UserIdle
    /\ SlugIdle
    /\ DbIdle
    /\ RaceIdle

\* new Order({...}).save() by user u for product p
PlaceOrder(u, p) ==
    /\ Cardinality(orders) < MaxOrders
    /\ orders' = orders \cup {[id |-> Cardinality(orders) + 1, user |-> u,
                               products |-> {p}, orderStatus |-> "pending"]}
    /\ storeCall' = [op |-> "placeOrder", user |-> u, product |-> p]
    /\ storeResult' = "ok"
    /\ UNCHANGED <<users, reviews, interactions, ratings, orderVars, stockVars,
                   userVars, slugVars, dbVars, raceVars>>

\* a stored order is loaded and order.updateStatus(status) is called
SetOrderStatus(o, status) ==
    /\ o \in orders
    /\ orders' = (orders \ {o}) \cup {[o EXCEPT !.orderStatus = status]}
    /\ storeCall' = [op |-> "setOrderStatus", user |-> o.user, product |-> "none"]
    /\ storeResult' = "ok"
    /\ UNCHANGED <<users, reviews, interactions, ratings, orderVars, stockVars,
                   userVars, slugVars, dbVars, raceVars>>

\* a stored review is loaded and review.markAsHelpful(v) is called
MarkAsHelpful(old, v) ==
    /\ old \in reviews
    /\ LET r == markAsHelpful(reviews, ratings, orders, old, v)
       IN  /\ reviews' = r.reviews
           /\ ratings' = r.ratings
           /\ storeResult' = r.result
    /\ storeCall' = [op |-> "markAsHelpful", user |-> old.user, product |-> old.product,
                     voter |-> v]
    /\ UNCHANGED <<users, orders, interactions, orderVars, stockVars, userVars, slugVars, dbVars, raceVars>>

ReviewLifeNext ==
    \/ PlaceOrder("u1", "p1")
    \/ \E o \in orders, status \in LifeStatuses : SetOrderStatus(o, status)
    \/ \E rating \in RatingInputs, verified \in BOOLEAN :
          CreateReview("u1", "p1", rating, TRUE, verified)
    \/ \E old \in reviews, rating \in RatingInputs, approved \in BOOLEAN :
          UpdateReview(old, rating, approved)
    \/ \E old \in reviews : DeleteReview(old)
    \/ \E old \in reviews, v \in Voters : MarkAsHelpful(old, v)

SpecReviewLife == ReviewLifeInit /\ [][ReviewLifeNext]_vars

----------------------------------------------------------------------------
(* The password of one user through assignments, saves and loads *)

UserInit ==
    /\ \E text \in Plaintexts :
          /\ userDoc = NewUser(text)
          /\ lastAssigned = text
    /\ storedPassword = Undefined
    /\ compared = Undefined
    /\ OrderIdle
    /\ StockIdle
    /\ StoreIdle
    /\ SlugIdle
    /\ DbIdle
    /\ RaceIdle

\* user.password = text
AssignPassword(text) ==
    /\ userDoc' = setPassword(userDoc, text)
    /\ lastAssigned' = text
    /\ compared' = Undefined
    /\ UNCHANGED <<storedPassword, orderVars, stockVars, storeVars, slugVars, dbVars, raceVars>>

\* another field of the user is changed
EditProfile ==
    /\ userDoc' = [userDoc EXCEPT !.profileDirty = TRUE, !.result = "none"]
    /\ compared' = Undefined
    /\ UNCHANGED <<storedPassword, lastAssigned, orderVars, stockVars, storeVars, slugVars, dbVars, raceVars>>

\* user.save()
SaveUser ==
    /\ LET r == saveUser(userDoc, storedPassword)
       IN  /\ userDoc' = r.doc
           /\ storedPassword' = r.stored
    /\ compared' = Undefined
    /\ UNCHANGED <<lastAssigned, orderVars, stockVars, storeVars, slugVars, dbVars, raceVars>>

\* User.findById(id).select('+password'): the stored user replaces the
\* document, and with it the assignments that were never saved
LoadUser ==
    /\ storedPassword # Undefined
    /\ userDoc' = [password |-> storedPassword[1], modified |-> FALSE,
                   profileDirty |-> FALSE, result |-> "loaded"]
    /\ lastAssigned' = storedPassword[1].plain
    /\ compared' = Undefined
    /\ UNCHANGED <<storedPassword, orderVars, stockVars, storeVars, slugVars, dbVars, raceVars>>

\* user.comparePassword(candidate)
ComparePassword(candidate) ==
    /\ compared' = Some([candidate |-> candidate,
                         matches |-> comparePassword(userDoc, candidate)])
    /\ UNCHANGED <<userDoc, storedPassword, lastAssigned, orderVars, stockVars,
                   storeVars, slugVars, dbVars, raceVars>>

UserNext ==
    \/ \E text \in Plaintexts : AssignPassword(text)
    \/ EditProfile
    \/ SaveUser
    \/ LoadUser
    \/ \E candidate \in Plaintexts : ComparePassword(candidate)

SpecUser == UserInit /\ [][UserNext]_vars

----------------------------------------------------------------------------
(* The slug of a category or a product through saves and renames *)

\* Slugs a caller supplies at construction: none, an empty one, one of its own.
SuppliedSlugs == {Undefined, Some(<<>>), Some(<<"B", " ">>)}

\* Names a stored document is renamed to.
Renames == {<<"B", "-", "-", "7">>, <<"-", " ">>, <<>>}

SlugInit ==
    /\ \E kind \in {"category", "product"}, name \in Strings(MaxNameLen),
          slug \in SuppliedSlugs : entry = NewEntry(kind, name, slug)
    /\ OrderIdle
    /\ StockIdle
    /\ StoreIdle
    /\ UserIdle
    /\ DbIdle
    /\ RaceIdle

\* doc.save()
SaveEntry ==
    /\ entry' = saveEntry(entry)
    /\ UNCHANGED <<orderVars, stockVars, storeVars, userVars, dbVars, raceVars>>

\* doc.name = name
Rename(name) ==
    /\ entry' = setName(entry, name)
    /\ UNCHANGED <<orderVars, stockVars, storeVars, userVars, dbVars, raceVars>>

SlugNext ==
    \/ SaveEntry
    \/ \E name \in Renames : Rename(name)

SpecSlug == SlugInit /\ [][SlugNext]_vars

----------------------------------------------------------------------------
(* The database service: connect, disconnect, connection events, SIGINT *)

DatabaseInit ==
    /\ mongoUri \in UriInputs
    /\ service = NewService
    /\ readyState = 0
    /\ handlers = <<>>
    /\ exitCode = Undefined
    /\ logged = "none"
    /\ dbCall = [op |-> "none"]
    /\ OrderIdle
    /\ StockIdle
    /\ StoreIdle
    /\ UserIdle
    /\ SlugIdle
    /\ RaceIdle

\* the environment variable is changed
SetEnv(uri) ==
    /\ exitCode = Undefined
    /\ mongoUri' = uri
    /\ dbCall' = [op |-> "setEnv"]
    /\ UNCHANGED <<service, readyState, handlers, exitCode, logged,
                   orderVars, stockVars, storeVars, userVars, slugVars, raceVars>>

\* connect(), up to its await or its throw
Connect ==
    /\ exitCode = Undefined
    /\ ~service.connecting
    /\ service.listeners < MaxConnects
    /\ LET r == connect(mongoUri, service, readyState, logged)
       IN  /\ service' = r.service
           /\ readyState' = r.readyState
           /\ logged' = r.logged
           /\ dbCall' = [op |-> "connect", phase |-> "called", result |-> r.result]
    /\ UNCHANGED <<mongoUri, handlers, exitCode,
                   orderVars, stockVars, storeVars, userVars, slugVars, raceVars>>

\* mongoose.connect() settles and connect() runs on
ConnectSettles(outcome) ==
    /\ exitCode = Undefined
    /\ service.connecting
    /\ LET r == connectSettled(service, readyState, outcome)
       IN  /\ service' = r.service
           /\ readyState' = r.readyState
           /\ logged' = r.logged
           /\ dbCall' = [op |-> "connect", phase |-> "settled", result |-> r.result]
    /\ UNCHANGED <<mongoUri, handlers, exitCode,
                   orderVars, stockVars, storeVars, userVars, slugVars, raceVars>>

\* disconnect() called by the application, through to its result
Disconnect(outcome) ==
    /\ exitCode = Undefined
    /\ LET r == disconnectSettled(service, readyState, outcome)
       IN  /\ service' = r.service
           /\ readyState' = r.readyState
           /\ logged' = r.logged
           /\ dbCall' = [op |-> "disconnect", phase |-> "settled", result |-> r.result]
    /\ UNCHANGED <<mongoUri, handlers, exitCode,
                   orderVars, stockVars, storeVars, userVars, slugVars, raceVars>>

\* the connection drops: the 'disconnected' listener, if registered, clears
\* isConnected
ConnectionLost ==
    /\ exitCode = Undefined
    /\ readyState = 1
    /\ readyState' = 0
    /\ service' = IF service.listeners > 0
                  THEN [service EXCEPT !.isConnected = FALSE] ELSE service
    /\ logged' = IF service.listeners > 0
                 THEN "Mongoose disconnected from MongoDB" ELSE logged
    /\ dbCall' = [op |-> "connectionLost"]
    /\ UNCHANGED <<mongoUri, handlers, exitCode,
                   orderVars, stockVars, storeVars, userVars, slugVars, raceVars>>

\* the driver reconnects right after a drop: the 'reconnected' listener, if
\* registered, sets isConnected
Reconnected ==
    /\ exitCode = Undefined
    /\ dbCall.op = "connectionLost"
    /\ readyState = 0
    /\ readyState' = 1
    /\ service' = IF service.listeners > 0
                  THEN [service EXCEPT !.isConnected = TRUE] ELSE service
    /\ logged' = IF service.listeners > 0
                 THEN "Mongoose reconnected to MongoDB" ELSE logged
    /\ dbCall' = [op |-> "reconnected"]
    /\ UNCHANGED <<mongoUri, handlers, exitCode,
                   orderVars, stockVars, storeVars, userVars, slugVars, raceVars>>

\* the process receives SIGINT
Sigint ==
    /\ exitCode = Undefined
    /\ Len(handlers) + service.listeners <= MaxHandlerRuns
    /\ LET r == onSigint(service, handlers, readyState)
       IN  /\ handlers' = r.handlers
           /\ readyState' = r.readyState
           /\ exitCode' = r.exitCode
    /\ dbCall' = [op |-> "sigint"]
    /\ UNCHANGED <<mongoUri, service, logged,
                   orderVars, stockVars, storeVars, userVars, slugVars, raceVars>>

\* the disconnect() a SIGINT listener awaits settles, and the listener logs
\* and exits the process
HandlerFinishes(i, outcome) ==
    /\ exitCode = Undefined
    /\ i \in 1..Len(handlers)
    /\ handlers[i] = "disconnecting"
    /\ LET r == disconnectSettled(service, readyState, outcome)
       IN  /\ service' = r.service
           /\ readyState' = r.readyState
           /\ logged' = IF r.result = "ok"
                        THEN "MongoDB connection closed through app termination"
                        ELSE "Error during MongoDB disconnection on app termination"
           /\ handlers' = [handlers EXCEPT ![i] = r.result]
           /\ exitCode' = Some(sigintExit(r.result))
           /\ dbCall' = [op |-> "sigintHandler", run |-> i, result |-> r.result]
    /\ UNCHANGED <<mongoUri, orderVars, stockVars, storeVars, userVars, slugVars, raceVars>>

DatabaseNext ==
    \/ \E uri \in UriInputs : SetEnv(uri)
    \/ Connect
    \/ \E outcome \in {"ok", "error"} : ConnectSettles(outcome)
    \/ \E outcome \in {"ok", "error"} : Disconnect(outcome)
    \/ ConnectionLost
    \/ Reconnected
    \/ Sigint
    \/ \E i \in 1..MaxHandlerRuns, outcome \in {"ok", "error"} : HandlerFinishes(i, outcome)

SpecDatabase == DatabaseInit /\ [][DatabaseNext]_vars

----------------------------------------------------------------------------
(* Reductions of one product's stock through separately loaded copies, with
   a ledger of the stock it started with and the units successfully reduced *)

StockRaceInit ==
    /\ storedStock \in 0..MaxStock
    /\ copies = [c \in Copies |-> LoadedProduct(storedStock)]
    /\ stockCall = [op |-> "none"]
    /\ ledger = [start |-> storedStock, reduced |-> 0]
    /\ hooks = [w \in Writers |-> IdleHook]
    /\ cascade = [step |-> "idle", user |-> "none"]
    /\ OrderIdle
    /\ StoreIdle
    /\ UserIdle
    /\ SlugIdle
    /\ DbIdle

\* the save a copy's reduceStock awaits completes; the units of a successful
\* call are entered in the ledger
SettleReduction(c) ==
    /\ copies[c].pending # Undefined
    /\ LET r == saveStock(copies[c], storedStock)
       IN  /\ copies' = [copies EXCEPT ![c] = r.doc]
           /\ storedStock' = r.stored
           /\ ledger' = IF r.doc.result = "ok"
                        THEN [ledger EXCEPT !.reduced = @ + copies[c].pending[1].quantity]
                        ELSE ledger
    /\ stockCall' = [op |-> copies[c].pending[1].op, copy |-> c,
                     quantity |-> copies[c].pending[1].quantity, phase |-> "saved"]
    /\ UNCHANGED <<hooks, cascade, orderVars, storeVars, userVars, slugVars, dbVars>>

StockRaceNext ==
    \/ \E c \in Copies : LoadProduct(c)
    \/ \E c \in Copies, q \in 1..MaxStock :
          ledger.reduced + q <= MaxReduced /\ ReduceStock(c, q)
    \/ \E c \in Copies : SettleReduction(c)

SpecStockRace == StockRaceInit /\ [][StockRaceNext]_vars

----------------------------------------------------------------------------
(* Review writes of two users on one product, their rating hooks interleaved
   at their awaits *)

ReviewRaceInit ==
    /\ users = Writers
    /\ orders = {}
    /\ reviews = {}
    /\ interactions = {}
    /\ ratings = [p \in Products |-> NoRatings]
    /\ storeCall = [op |-> "none"]
    /\ storeResult = "none"
    /\ ledger = [start |-> 0, reduced |-> 0]
    /\ hooks = [w \in Writers |-> IdleHook]
    /\ cascade = [step |-> "idle", user |-> "none"]
    /\ OrderIdle
    /\ StockIdle
    /\ UserIdle
    /\ SlugIdle
    /\ DbIdle

\* a writer creates, updates or deletes its review of p1, up to the point
\* where the write is stored and the post hook starts
WriteReview(w, op, rating) ==
    /\ hooks[w].pc = "idle"
    /\ LET mine == {r \in reviews : r.user = w /\ r.product = "p1"}
           r == IF op = "create"
                THEN createReview(reviews, ratings, orders,
                                  NewReview(w, "p1", rating, TRUE, FALSE))
                ELSE IF op = "update"
                THEN LET old == CHOOSE x \in mine : TRUE
                     IN  updateReview(reviews, ratings, orders, old,
                                      [old EXCEPT !.rating = rating])
                ELSE deleteReview(reviews, ratings, CHOOSE x \in mine : TRUE)
       IN  /\ op # "create" => mine # {}
           /\ reviews' = r.reviews
           /\ storeResult' = r.result
           /\ hooks' = IF r.result = "ok"
                       THEN [hooks EXCEPT ![w] = StartedHook("p1")]
                       ELSE hooks
    /\ storeCall' = [op |-> op, user |-> w, product |-> "p1"]
    /\ UNCHANGED <<users, orders, interactions, ratings, ledger, cascade,
                   orderVars, stockVars, userVars, slugVars, dbVars>>

\* the hook's Product.findById() returns
HookLoadsProduct(w) ==
    /\ hooks[w].pc = "wrote"
    /\ hooks' = [hooks EXCEPT ![w].pc = "loaded", ![w].loaded = ratings[hooks[w].product]]
    /\ storeCall' = [op |-> "hookLoaded", user |-> w, product |-> hooks[w].product]
    /\ UNCHANGED <<users, orders, reviews, interactions, ratings, storeResult, ledger,
                   cascade, orderVars, stockVars, userVars, slugVars, dbVars>>

\* the hook's find of the approved reviews returns and the aggregate is
\* computed and assigned
HookFindsReviews(w) ==
    /\ hooks[w].pc = "loaded"
    /\ hooks' = [hooks EXCEPT ![w].pc = "found",
                              ![w].found = recomputeRatings(reviews, hooks[w].product)]
    /\ storeCall' = [op |-> "hookFound", user |-> w, product |-> hooks[w].product]
    /\ UNCHANGED <<users, orders, reviews, interactions, ratings, storeResult, ledger,
                   cascade, orderVars, stockVars, userVars, slugVars, dbVars>>

\* the hook's product.save() completes
HookSaves(w, mode) ==
    /\ hooks[w].pc = "found"
    /\ ratings' = [ratings EXCEPT ![hooks[w].product] =
                      saveRatings(@, hooks[w].loaded, hooks[w].found, mode)]
    /\ hooks' = [hooks EXCEPT ![w] = IdleHook]
    /\ storeCall' = [op |-> "hookSaved", user |-> w, product |-> hooks[w].product]
    /\ UNCHANGED <<users, orders, reviews, interactions, storeResult, ledger,
                   cascade, orderVars, stockVars, userVars, slugVars, dbVars>>

ReviewRaceNext ==
    \/ \E w \in Writers, op \in {"create", "update", "delete"}, rating \in {2, 4} :
          WriteReview(w, op, rating)
    \/ \E w \in Writers : HookLoadsProduct(w)
    \/ \E w \in Writers : HookFindsReviews(w)
    \/ \E w \in Writers, mode \in {"paths", "whole"} : HookSaves(w, mode)

SpecReviewRace == ReviewRaceInit /\ [][ReviewRaceNext]_vars

----------------------------------------------------------------------------
(* Deletion of a user, step by step, where any step can fail *)

\* The reviews stored when users are deleted.
CascadeReviews ==
    {NewReview("u1", "p1", 4, TRUE, TRUE),
     NewReview("u2", "p1", 2, TRUE, TRUE),
     NewReview("u3", "p2", 5, FALSE, FALSE)}

CascadeInit ==
    /\ users = Users
    /\ orders = StoredOrders
    /\ reviews \in SUBSET CascadeReviews
    /\ interactions \in SUBSET [userId : Users, product : {"p1"}]
    /\ ratings = [p \in Products |-> recomputeRatings(reviews, p)]
    /\ storeCall = [op |-> "none"]
    /\ storeResult = "none"
    /\ ledger = [start |-> 0, reduced |-> 0]
    /\ hooks = [w \in Writers |-> IdleHook]
    /\ cascade = [step |-> "idle", user |-> "none"]
    /\ OrderIdle
    /\ StockIdle
    /\ UserIdle
    /\ SlugIdle
    /\ DbIdle

\* a stored user is loaded and user.deleteOne() is called: the hook's first
\* deleteMany is in flight
StartDeleteUser(u) ==
    /\ cascade.step = "idle"
    /\ u \in users
    /\ cascade' = [step |-> "orders", user |-> u]
    /\ storeCall' = [op |-> "deleteUser", user |-> u, product |-> "none"]
    /\ storeResult' = "pending"
    /\ UNCHANGED <<users, orders, reviews, interactions, ratings, ledger, hooks,
                   orderVars, stockVars, userVars, slugVars, dbVars>>

\* the await of the running deletion settles
CascadeStep(outcome) ==
    /\ cascade.step # "idle"
    /\ LET r == cascadeStep(cascade.step, outcome, users, orders, reviews,
                            interactions, cascade.user)
       IN  /\ cascade' = [cascade EXCEPT !.step = r.step]
           /\ users' = r.users
           /\ orders' = r.orders
           /\ reviews' = r.reviews
           /\ interactions' = r.interactions
           /\ storeResult' = r.result
    /\ storeCall' = [op |-> "cascade", step |-> cascade.step, user |-> cascade.user,
                     product |-> "none"]
    /\ UNCHANGED <<ratings, ledger, hooks,
                   orderVars, stockVars, userVars, slugVars, dbVars>>

CascadeNext ==
    \/ \E u \in Users : StartDeleteUser(u)
    \/ \E outcome \in {"ok", "error"} : CascadeStep(outcome)

SpecCascade == CascadeInit /\ [][CascadeNext]_vars

----------------------------------------------------------------------------
(* Properties of the order's life, checked under Spec *)

StatusesOf(timeline) == [i \in 1..Len(timeline) |-> timeline[i].status]

IsPrefix(a, b) == Len(a) <= Len(b) /\ SubSeq(b, 1, Len(a)) = a

\* The step is a call of order.save(): the clock does not move during a call.
IsSave == call'.op = "save" /\ now' = now

\* The step is a call of order.updateStatus(call'.status, call'.message).
IsUpdateStatus == call'.op = "updateStatus" /\ now' = now

\* C1: over any sequence of creation and updateStatus calls, in any order,
\* the first timeline entry of a created order has status pending, and the
\* timeline only grows by appending.
C1_TimelineStartsPendingAppendOnly ==
    [][/\ IsPrefix(order.timeline, order'.timeline)
       /\ ~order'.isNew => /\ order'.timeline # <<>>
                           /\ order'.timeline[1].status = "pending"]_vars

\* C2: the first save of an order, made before any updateStatus call, leaves
\* a timeline of exactly one entry, of status pending, whatever the caller
\* supplied to the constructor.
C2_CreationYieldsOnePending ==
    [][(order.isNew /\ ~order'.isNew /\ IsSave)
           => /\ Len(order'.timeline) = 1
              /\ order'.timeline[1].status = "pending"]_vars

\* C3: updateStatus(s, m) on a persisted order sets orderStatus to s and
\* appends exactly one entry, of status s, whose message is m when a message
\* is supplied (a non-empty text) and the canned message of s otherwise,
\* "Status updated" for a status outside the seven.
C3_UpdateStatusAppendsOneEntry ==
    [][(~order.isNew /\ IsUpdateStatus)
           => LET s == call'.status
                  m == call'.message
                  last == order'.timeline[Len(order'.timeline)]
              IN  /\ order'.orderStatus = s
                  /\ Len(order'.timeline) = Len(order.timeline) + 1
                  /\ IsPrefix(order.timeline, order'.timeline)
                  /\ last.status = s
                  /\ last.message = IF m \notin {Undefined, Some("")} THEN m[1]
                                    ELSE IF s \in OrderStatuses THEN getStatusMessage(s)
                                    ELSE "Status updated"]_vars

\* a persisted order with a supplied message followed by a canned one
C3_Witness ==
    /\ ~order.isNew
    /\ order.orderStatus = "delivered"
    /\ call = [op |-> "updateStatus", status |-> "delivered", message |-> Undefined]
    /\ order.timeline = <<[status |-> "pending", message |-> "Order has been placed"],
                          [status |-> "shipped", message |-> "Left the warehouse"],
                          [status |-> "delivered", message |-> "Order has been delivered"]>>

\* C4: the delivery timestamp is set by the first updateStatus to delivered,
\* to the time of that call; once set it never changes, whatever updateStatus
\* calls follow; and no other operation sets it.
C4_DeliveryStampImmutable ==
    [][/\ order.actualDelivery # Undefined => order'.actualDelivery = order.actualDelivery
       /\ (order.actualDelivery = Undefined /\ order'.actualDelivery # Undefined)
              => /\ IsUpdateStatus
                 /\ call'.status = "delivered"
                 /\ order'.actualDelivery = Some(now)
       /\ (IsUpdateStatus /\ call'.status = "delivered")
              => order'.actualDelivery # Undefined]_vars

\* an order delivered, moved on, and delivered again, later than its stamp
C4_Witness ==
    /\ StatusesOf(order.timeline) = <<"pending", "delivered", "refunded", "delivered">>
    /\ order.orderStatus = "delivered"
    /\ call.op = "updateStatus"
    /\ order.actualDelivery = Some(1)
    /\ now > returnWindow

\* C5: there is no transition matrix: updateStatus(to), for any of the seven
\* statuses, on a valid order in any status succeeds and leaves it in status to.
C5_AnyTransitionSucceeds ==
    [][(validateOrder(order) /\ IsUpdateStatus /\ call'.status \in OrderStatuses)
           => /\ lastResult' = "ok"
              /\ order'.orderStatus = call'.status]_vars

\* an order that left cancelled and then left refunded
C5_Witness ==
    /\ StatusesOf(order.timeline) = <<"pending", "cancelled", "refunded", "delivered">>
    /\ order.orderStatus = "delivered"
    /\ call.op = "updateStatus"
    /\ lastResult = "ok"

\* C6: canBeCancelled() is true for pending, confirmed and processing and
\* false for shipped, delivered, cancelled and refunded.
C6_CanBeCancelledTable ==
    /\ order.orderStatus \in {"pending", "confirmed", "processing"} => canBeCancelled(order)
    /\ order.orderStatus \in {"shipped", "delivered", "cancelled", "refunded"}
           => ~canBeCancelled(order)

\* a persisted order that was moved to shipped
C6_Witness ==
    /\ ~order.isNew
    /\ StatusesOf(order.timeline) = <<"pending", "confirmed", "shipped">>
    /\ order.orderStatus = "shipped"
    /\ ~canBeCancelled(order)

\* C7: canBeReturned() at time now is true iff the status is delivered, a
\* delivery timestamp exists and now minus it is at most 604,800,000 ms.
C7_CanBeReturnedWindow ==
    canBeReturned(order, now)
        <=> /\ order.orderStatus = "delivered"
            /\ order.actualDelivery # Undefined
            /\ now - order.actualDelivery[1] <= 604800000

\* delivered exactly seven days ago: still returnable
C7_Witness ==
    /\ order.orderStatus = "delivered"
    /\ order.actualDelivery = Some(1)
    /\ now = 604800001
    /\ canBeReturned(order, now)

----------------------------------------------------------------------------
(* Properties of calculateTotals, checked under SpecTotals *)

RECURSIVE SumOfLines(_, _)
SumOfLines(items, n) ==
    IF n = 0 THEN 0
    ELSE SumOfLines(items, n - 1) + items[n].price * items[n].quantity

\* C8: calculateTotals returns subtotal = the sum of price x quantity, tax =
\* 0.16 x subtotal, shipping = 0 above 5000 and 200 otherwise, the discount
\* of the pricing snapshot (0 without one) and total = subtotal + tax +
\* shipping - discount; and it leaves the order as it was.  Amounts are in
\* hundredths.
C8_TotalsFormula ==
    /\ [](totals # Undefined =>
            LET r == totals[1]
                S == SumOfLines(order.items, Len(order.items))
                d == IF order.pricing = Undefined THEN 0 ELSE order.pricing[1].discount
            IN  /\ r.subtotal = 100 * S
                /\ r.tax = 16 * S
                /\ r.shipping = IF S > 5000 THEN 0 ELSE 20000
                /\ r.discount = 100 * d
                /\ r.total = r.subtotal + r.tax + r.shipping - r.discount)
    /\ [][order' = order]_vars

\* totals of an order whose subtotal is exactly 5000, with a discount of 100
C8_Witness ==
    /\ order.items = <<[price |-> 2500, quantity |-> 2]>>
    /\ order.pricing = Some([discount |-> 100])
    /\ totals = Some([subtotal |-> 500000, tax |-> 80000, shipping |-> 20000,
                      discount |-> 10000, total |-> 590000])

\* C9: with quantities >= 1, prices >= 0 and a discount >= 0, the subtotal,
\* tax, shipping and total returned by calculateTotals are all >= 0.
C9_DerivedValuesNonNegative ==
    ( /\ totals # Undefined
      /\ \A i \in 1..Len(order.items) :
             order.items[i].quantity >= 1 /\ order.items[i].price >= 0
      /\ order.pricing # Undefined => order.pricing[1].discount >= 0 )
        => /\ totals[1].subtotal >= 0
           /\ totals[1].tax >= 0
           /\ totals[1].shipping >= 0
           /\ totals[1].total >= 0

----------------------------------------------------------------------------
(* Properties of calculateDiscountedPrice, checked under SpecDiscount *)

\* the discount window of the claim: both bounds inclusive, an absent bound
\* unbounded
InWindow(discount, t) ==
    /\ discount.startDate = Undefined \/ t >= discount.startDate[1]
    /\ discount.endDate = Undefined \/ t <= discount.endDate[1]

\* C10: calculateDiscountedPrice at time t returns the base price unless a
\* discount is active at t; when active, price x (1 - value / 100) for
\* percentage, max(0, price - value) for fixed, and the base price for a
\* missing or unknown type.  Prices are in hundredths.
C10_DiscountedPrice ==
    quote # Undefined =>
        LET t == quote[1].at
            base == 100 * product.price
        IN  IF product.discount = Undefined \/ ~InWindow(product.discount[1], t)
            THEN quote[1].price = base
            ELSE LET discount == product.discount[1]
                 IN  /\ discount.type = Some("percentage")
                            => quote[1].price * 100 = base * (100 - discount.value)
                     /\ (discount.type = Some("fixed") /\ product.price >= discount.value)
                            => quote[1].price = base - 100 * discount.value
                     /\ (discount.type = Some("fixed") /\ product.price < discount.value)
                            => quote[1].price = 0
                     /\ discount.type \notin {Some("percentage"), Some("fixed")}
                            => quote[1].price = base

\* 20% on 100 quoted on the last instant of the window: 80
C10_Witness ==
    /\ product = NewProduct(100, Some([type |-> Some("percentage"), value |-> 20,
                                       startDate |-> Some(1), endDate |-> Some(3)]))
    /\ quote = Some([at |-> 3, price |-> 8000])

----------------------------------------------------------------------------
(* Properties of the stock operations, checked under SpecStock *)

\* C11: reduceStock(q) on a copy whose stock is below q fails with the
\* insufficient-stock error, starts no save and leaves the stock of every
\* copy and the persisted stock as they were; otherwise it lowers the copy's
\* stock by exactly q (to 0 when q equals the stock), and when its save
\* completes the persisted stock is the copy's lowered stock: q below the
\* value the copy lowered whenever that value is still the persisted one.
\* The stock is never clamped and never driven below zero.
C11_ReduceStockExact ==
    [][\A c \in Copies :
        /\ (stockCall'.op = "reduceStock" /\ stockCall'.copy = c
                /\ stockCall'.phase = "called")
           => LET q == stockCall'.quantity
              IN  IF q > copies[c].stock
                  THEN /\ copies'[c].result = "Insufficient stock"
                       /\ copies'[c].pending = Undefined
                       /\ \A d \in Copies : copies'[d].stock = copies[d].stock
                       /\ storedStock' = storedStock
                  ELSE /\ copies'[c].stock = copies[c].stock - q
                       /\ copies'[c].stock >= 0
                       /\ (q = copies[c].stock => copies'[c].stock = 0)
                       /\ copies'[c].pending # Undefined
        /\ (stockCall'.op = "reduceStock" /\ stockCall'.copy = c
                /\ stockCall'.phase = "saved")
           => LET q == stockCall'.quantity
              IN  /\ copies'[c].result = "ok"
                  /\ copies'[c].stock = copies[c].stock
                  /\ q > 0 => storedStock' = copies[c].stock
                  /\ storedStock = copies[c].stock + q => storedStock' = storedStock - q
      ]_vars

\* reduceStock(2) took a copy holding 2 to 0 and the save persisted 0, and
\* the other copy's reduceStock was refused.
C11_Witness ==
    /\ stockCall = [op |-> "reduceStock", copy |-> "a", quantity |-> 2, phase |-> "saved"]
    /\ copies["a"].stock = 0
    /\ copies["a"].result = "ok"
    /\ storedStock = 0
    /\ copies["b"].result = "Insufficient stock"

\* C12: starting from a non-negative stock, under every interleaving of
\* addToStock and reduceStock calls with non-negative quantities on separately
\* loaded copies, the persisted stock and the stock of each loaded copy stay
\* at or above zero.
C12_StockNeverNegative ==
    /\ storedStock >= 0
    /\ \A c \in Copies : copies[c].stock >= 0

\* Both copies reduced the last unit while the other's save was in flight.
C12_Witness ==
    /\ stockCall = [op |-> "reduceStock", copy |-> "b", quantity |-> 1, phase |-> "saved"]
    /\ copies["a"].pending = Some([op |-> "reduceStock", quantity |-> 1])
    /\ copies["a"].stock = 0
    /\ copies["b"].stock = 0
    /\ storedStock = 0

----------------------------------------------------------------------------
(* Properties of the reviews and of the user's records, checked under
   SpecReviews *)

\* The aggregate agg is the one the reviews stored for product p call for:
\* its count is the number of approved reviews and its average, in tenths, is
\* their mean rounded to one decimal (halves upward), 0 when there is none.
RatingsMatch(agg, revs, p) ==
    LET found == {r \in revs : r.product = p /\ r.isApproved = TRUE}
        n == Cardinality(found)
        CountOf(v) == Cardinality({r \in found : r.rating = v})
        total == CountOf(1) + 2 * CountOf(2) + 3 * CountOf(3) + 4 * CountOf(4) + 5 * CountOf(5)
    IN  /\ agg.count = n
        /\ n = 0 => agg.average = 0
        /\ n > 0 => /\ 2 * n * agg.average - n <= 20 * total
                    /\ 20 * total < 2 * n * agg.average + n

\* C13: when a review creation, update or document deletion completes, the
\* aggregate of the review's product is the count and the one-decimal mean of
\* the approved reviews stored for it after the change, whatever the aggregate
\* was before; ratings 4 and 2 give (3.0, 2) and a lone 2 gives (2.0, 1).
C13_AggregateRecomputed ==
    [][(storeCall'.op \in {"create", "update", "delete"} /\ storeResult' = "ok")
        => LET p == storeCall'.product
               found == {r \in reviews' : r.product = p /\ r.isApproved}
           IN  /\ RatingsMatch(ratings'[p], reviews', p)
               /\ ({r.rating : r \in found} = {2, 4} /\ Cardinality(found) = 2)
                      => ratings'[p] = [average |-> 30, count |-> 2]
               /\ ({r.rating : r \in found} = {2} /\ Cardinality(found) = 1)
                      => ratings'[p] = [average |-> 20, count |-> 1]
      ]_vars

\* The review rated 4 was deleted from a product that held a 4 and a 2, and
\* the aggregate is (2.0, 1).
C13_Witness ==
    /\ storeCall = [op |-> "delete", user |-> "u1", product |-> "p1"]
    /\ storeResult = "ok"
    /\ {r.rating : r \in {x \in reviews : x.product = "p1"}} = {2}
    /\ ratings["p1"] = [average |-> 20, count |-> 1]

\* C14: after any sequence of completed review creations, updates and
\* deletions and user deletions (which delete the user's reviews), the stored
\* aggregate of every product is the count and the rounded mean of the
\* approved reviews stored for it.
C14_AggregateAlwaysCurrent ==
    \A p \in Products : RatingsMatch(ratings[p], reviews, p)

\* C16: no two stored reviews have the same user and product; creating a
\* valid review for a pair that has one fails with the uniqueness conflict and
\* leaves the reviews and every aggregate as they were.
C16_OneReviewPerPair ==
    /\ [](\A r1, r2 \in reviews :
             (r1.user = r2.user /\ r1.product = r2.product) => r1 = r2)
    /\ [][(storeCall'.op = "create"
             /\ \E r \in reviews : r.user = storeCall'.user /\ r.product = storeCall'.product)
          => /\ storeResult' = "DuplicateKey"
             /\ reviews' = reviews
             /\ ratings' = ratings
         ]_vars

\* A second review of (u1, p1) was refused while the first is stored and
\* counted.
C16_Witness ==
    /\ storeCall = [op |-> "create", user |-> "u1", product |-> "p1"]
    /\ storeResult = "DuplicateKey"
    /\ \E r \in reviews : r.user = "u1" /\ r.product = "p1" /\ r.rating = 4
    /\ ratings["p1"] = [average |-> 40, count |-> 1]

\* C18: when user.deleteOne() completes, no order, review or interaction of
\* that user is stored, and the orders, reviews and interactions of the other
\* users are exactly those stored before.
C18_CascadeRemovesUserRecords ==
    [][(storeCall'.op = "deleteUser" /\ storeResult' = "ok")
        => LET u == storeCall'.user
           IN  /\ u \notin users'
               /\ users' = users \ {u}
               /\ \A o \in orders' : o.user # u
               /\ \A r \in reviews' : r.user # u
               /\ \A i \in interactions' : i.userId # u
               /\ \A o \in orders : o.user # u => o \in orders'
               /\ \A r \in reviews : r.user # u => r \in reviews'
               /\ \A i \in interactions : i.userId # u => i \in interactions'
               /\ orders' \subseteq orders
               /\ reviews' \subseteq reviews
               /\ interactions' \subseteq interactions
      ]_vars

\* u1, who had orders, a review and an interaction, was deleted, and u2's
\* review is still stored.
C18_Witness ==
    /\ storeCall = [op |-> "deleteUser", user |-> "u1", product |-> "none"]
    /\ "u1" \notin users
    /\ \E r \in reviews : r.user = "u2"
    /\ \A r \in reviews : r.user # "u1"
    /\ ratings["p1"].count = 2
    /\ Cardinality(orders) = 2
    /\ Cardinality(interactions) = 2

----------------------------------------------------------------------------
(* Properties of one review's life, checked under SpecReviewLife *)

\* C15: markAsHelpful(v) on a review whose helpfulBy already holds v changes
\* neither its helpful count nor its helpfulBy list, nor anything else stored;
\* on a review that does not hold v it appends v once and raises helpful by
\* one.  So a second call for the same user changes nothing.
C15_MarkAsHelpfulIdempotent ==
    [][storeCall'.op = "markAsHelpful"
        => \E old \in reviews :
             /\ old.user = storeCall'.user
             /\ old.product = storeCall'.product
             /\ IF \E i \in 1..Len(old.helpfulBy) : old.helpfulBy[i] = storeCall'.voter
                THEN /\ reviews' = reviews
                     /\ ratings' = ratings
                ELSE reviews' = (reviews \ {old}) \cup
                         {[old EXCEPT !.helpful = old.helpful + 1,
                                      !.helpfulBy = old.helpfulBy \o <<storeCall'.voter>>]}
      ]_vars

\* u2 marked the review again after u1 had marked it too: the list and the
\* count are as the two first calls left them.
C15_Witness ==
    /\ storeCall = [op |-> "markAsHelpful", user |-> "u1", product |-> "p1", voter |-> "u2"]
    /\ \E r \in reviews : r.helpfulBy = <<"u2", "u1">> /\ r.helpful = 2

\* C17: a created review's verified flag is whether its author has, when it
\* is created, a delivered order containing the product, whatever value the
\* caller supplied; no later save of the review (update, markAsHelpful) and
\* no change of the author's orders changes the flag.
C17_VerifiedFixedAtCreation ==
    [][/\ (storeCall'.op = "create" /\ storeResult' = "ok")
          => /\ Cardinality(reviews' \ reviews) = 1
             /\ \A r \in reviews' \ reviews :
                   /\ r.user = storeCall'.user
                   /\ r.product = storeCall'.product
                   /\ r.verified = (\E o \in orders : /\ o.user = r.user
                                                      /\ r.product \in o.products
                                                      /\ o.orderStatus = "delivered")
       /\ storeCall'.op \in {"update", "markAsHelpful", "placeOrder", "setOrderStatus"}
          => /\ \A r \in reviews' : \E old \in reviews :
                   /\ old.user = r.user
                   /\ old.product = r.product
                   /\ old.verified = r.verified
             /\ Cardinality(reviews') = Cardinality(reviews)
      ]_vars

\* A review created while its author had a delivered order was saved again
\* after that order was refunded, and is still verified.
C17_Witness ==
    /\ storeCall = [op |-> "update", user |-> "u1", product |-> "p1"]
    /\ storeResult = "ok"
    /\ \E r \in reviews : r.verified /\ r.rating = 2
    /\ \A o \in orders : o.orderStatus = "refunded"
    /\ orders # {}

----------------------------------------------------------------------------
(* Properties of the user's password, checked under SpecUser *)

----------------------------------------------------------------------------
(* Properties of the derived slug, checked under SpecSlug *)

RECURSIVE JoinWords(_, _, _)
\* The maximal runs of characters of [a-z0-9] in str, joined by single
\* hyphens: out is the part built so far, gap tells that characters outside
\* the class were passed since its last character.
JoinWords(str, out, gap) ==
    IF str = <<>> THEN out
    ELSE IF Head(str) \in {"a", "b", "c", "d", "e", "f", "g", "h", "i", "j", "k", "l", "m",
                           "n", "o", "p", "q", "r", "s", "t", "u", "v", "w", "x", "y", "z"}
                          \cup Digits
    THEN JoinWords(Tail(str), (IF gap /\ out # <<>> THEN out \o <<"-">> ELSE out)
                                  \o <<Head(str)>>, FALSE)
    ELSE JoinWords(Tail(str), out, TRUE)

ExampleName ==
    <<"M", "e", "n", "'", "s", " ", "R", "u", "n", "n", "i", "n", "g", " ",
      "S", "h", "o", "e", "s", "!", "!">>

ExampleSlug ==
    <<"m", "e", "n", "-", "s", "-", "r", "u", "n", "n", "i", "n", "g", "-",
      "s", "h", "o", "e", "s">>

\* The save derives a slug: the name is set and valid, and no slug is held.
DerivesSlug ==
    /\ entry.result = "none"
    /\ entry'.result = "ok"
    /\ entry.nameModified
    /\ entry.slug = Undefined \/ entry.slug = Some(<<>>)

\* C20: a derived slug is the lower-cased name with every maximal run of
\* characters outside [a-z0-9] replaced by one hyphen and a leading and a
\* trailing hyphen removed; it holds only characters of [a-z0-9-], no two
\* adjacent hyphens, no hyphen at either end, and deriving a slug from it
\* returns it unchanged.  "Men's Running Shoes!!" gives "men-s-running-shoes".
C20_SlugDerivation ==
    [][DerivesSlug
        => LET slug == entry'.slug[1]
           IN  /\ entry'.slug # Undefined
               /\ slug = JoinWords(toLowerCase(entry.name), <<>>, FALSE)
               /\ \A i \in 1..Len(slug) : isSlugChar(slug[i]) \/ slug[i] = "-"
               /\ \A i \in 1..(Len(slug) - 1) : ~(slug[i] = "-" /\ slug[i + 1] = "-")
               /\ slug # <<>> => (slug[1] # "-" /\ slug[Len(slug)] # "-")
               /\ slugify(slug) = slug
               /\ slugify(ExampleName) = ExampleSlug
      ]_vars

\* "-B 7" was saved as a new category and got the slug "b-7".
C20_Witness ==
    /\ entry.kind = "category"
    /\ entry.name = <<"-", "B", " ", "7">>
    /\ entry.result = "ok"
    /\ entry.slug = Some(<<"b", "-", "7">>)

\* C21: a document that holds a non-empty slug, derived or supplied, keeps it
\* through every later step, a save after a rename included; a save changes
\* the slug only when the name was modified and no non-empty slug is held.
C21_SlugDerivedOnce ==
    [][/\ (entry.slug # Undefined /\ entry.slug # Some(<<>>)) => entry'.slug = entry.slug
       /\ entry'.slug # entry.slug
            => /\ entry'.result = "ok"
               /\ entry.nameModified
               /\ entry.slug = Undefined \/ entry.slug = Some(<<>>)
      ]_vars

\* The category named "a" got the slug "a", was renamed to "B--7" and saved
\* again: the slug is still "a".
C21_Witness ==
    /\ entry.kind = "category"
    /\ entry.name = <<"B", "-", "-", "7">>
    /\ entry.result = "ok"
    /\ ~entry.nameModified
    /\ entry.slug = Some(<<"a">>)

----------------------------------------------------------------------------
(* Properties of the database service, checked under SpecDatabase *)

\* C22: connect() called while no connection string is configured fails with
\* an error that is logged and thrown to the caller; no connection is
\* attempted, no listener is registered, the service is as it was, and a
\* service that was not connected reports getConnectionStatus() false.
C22_ConnectWithoutUriFails ==
    [][(dbCall'.op = "connect" /\ dbCall'.phase = "called"
            /\ (mongoUri = Undefined \/ mongoUri = Some("")))
        => /\ dbCall'.result = "error"
           /\ logged' = "Failed to connect to MongoDB"
           /\ ~service'.connecting
           /\ readyState' = readyState
           /\ service' = service
           /\ handlers' = handlers
           /\ ~service.isConnected => ~(service'.isConnected /\ readyState' = 1)
      ]_vars

\* connect() failed for want of a connection string in a process that never
\* connected.
C22_Witness ==
    /\ dbCall = [op |-> "connect", phase |-> "called", result |-> "error"]
    /\ mongoUri = Undefined
    /\ logged = "Failed to connect to MongoDB"
    /\ service = [isConnected |-> FALSE, listeners |-> 0, connecting |-> FALSE]
    /\ readyState = 0

\* C26: once a connect has succeeded, SIGINT does not end the process by
\* itself: it starts a disconnect; the process exits only in the step in which
\* a disconnect started by the signal finishes, with code 0 and the
\* connection closed when it succeeded and with code 1 when it failed.
C26_SigintClosesBeforeExit ==
    [][/\ (dbCall'.op = "sigint" /\ service.listeners > 0)
          => /\ exitCode' = Undefined
             /\ Len(handlers') > Len(handlers)
             /\ handlers'[Len(handlers')] = "disconnecting"
       /\ (exitCode' # exitCode /\ service.listeners > 0)
          => \E i \in 1..Len(handlers) :
                /\ handlers[i] = "disconnecting"
                /\ handlers'[i] \in {"ok", "error"}
                /\ handlers'[i] = "ok"
                      => exitCode' = Some(0) /\ readyState' = 0 /\ ~service'.isConnected
                /\ handlers'[i] = "error" => exitCode' = Some(1)
      ]_vars

\* After a successful connect and a SIGINT, the disconnect succeeded and the
\* process exited with code 0.
C26_Witness ==
    /\ service.listeners = 1
    /\ handlers = <<"ok">>
    /\ exitCode = Some(0)
    /\ readyState = 0
    /\ logged = "MongoDB connection closed through app termination"

----------------------------------------------------------------------------
(* Properties of concurrent stock reductions, checked under SpecStockRace *)

\* C23: two reduceStock calls on separately loaded copies can both succeed
\* while the persisted stock reflects only one decrement.  Every reduceStock
\* whose save completes succeeds and overwrites the persisted stock with its
\* own copy's value, whatever was persisted since the copy was loaded, so the
\* units successfully reduced are never fewer than the drop of the persisted
\* stock and can exceed the stock there was.
C23_LostDecrement ==
    /\ [](storedStock + ledger.reduced >= ledger.start)
    /\ [][(stockCall'.op = "reduceStock" /\ stockCall'.phase = "saved")
            => /\ copies'[stockCall'.copy].result = "ok"
               /\ storedStock' = copies[stockCall'.copy].stock
               /\ ledger'.reduced = ledger.reduced + stockCall'.quantity
          ]_vars

\* Both copies were loaded with stock 2, both reduced it by 2 and both calls
\* succeeded: 4 units reduced of 2 available, persisted stock 0.
C23_Witness ==
    /\ ledger = [start |-> 2, reduced |-> 4]
    /\ storedStock = 0
    /\ \A c \in Copies : copies[c].result = "ok" /\ copies[c].stock = 0
    /\ stockCall.op = "reduceStock" /\ stockCall.phase = "saved"

----------------------------------------------------------------------------
(* Properties of concurrent review writes, checked under SpecReviewRace *)

\* C24: two review writes for the same product can interleave so that, after
\* both writes and their hooks have completed, the stored aggregate is not
\* the count and rounded mean of the approved reviews then stored.  A hook
\* computes the aggregate of the approved reviews stored when its query runs,
\* and its save writes that aggregate (each value of it, or the changed ones)
\* over what is persisted, whatever reviews were written since.
C24_StaleAggregateWritten ==
    [][/\ storeCall'.op = "hookFound"
            => RatingsMatch(hooks'[storeCall'.user].found, reviews, storeCall'.product)
       /\ storeCall'.op = "hookSaved"
            => LET h == hooks[storeCall'.user]
                   before == ratings[storeCall'.product]
                   after == ratings'[storeCall'.product]
               IN  /\ after.average \in {before.average, h.found.average}
                   /\ after.count \in {before.count, h.found.count}
                   /\ (h.found.average # h.loaded.average /\ h.found.count # h.loaded.count)
                         => after = h.found
      ]_vars

\* u1 and u2 each created an approved review of p1, rated 2 and 4; both hooks
\* have completed and the aggregate is that of one review only.
C24_Witness ==
    /\ \A w \in Writers : hooks[w].pc = "idle"
    /\ Cardinality(reviews) = 2
    /\ \A r \in reviews : r.product = "p1" /\ r.isApproved
    /\ ratings["p1"].count = 1
    /\ ~RatingsMatch(ratings["p1"], reviews, "p1")
    /\ storeCall.op = "hookSaved"

----------------------------------------------------------------------------
(* Properties of the user deletion, checked under SpecCascade *)

\* The records of a user in the three collections the deletion clears.
OrdersOf(u) == {o \in orders : o.user = u}
ReviewsOf(u) == {r \in reviews : r.user = u}
InteractionsOf(u) == {i \in interactions : i.userId = u}

\* C25: deleting a user is not atomic.  The user's orders go first, then the
\* reviews, then the interactions, and the user record last; when a step
\* fails the deletion ends with the error, the user record stays, what was
\* already deleted stays deleted and the remaining steps are not run.
C25_CascadeNotAtomic ==
    /\ [](cascade.step # "idle" =>
            /\ cascade.user \in users
            /\ cascade.step \in {"reviews", "interactions", "remove"}
                  => OrdersOf(cascade.user) = {}
            /\ cascade.step \in {"interactions", "remove"}
                  => ReviewsOf(cascade.user) = {}
            /\ cascade.step = "remove" => InteractionsOf(cascade.user) = {})
    /\ [][(storeCall'.op = "cascade" /\ storeResult' = "error")
            => /\ cascade'.step = "idle"
               /\ users' = users /\ cascade.user \in users'
               /\ orders' = orders
               /\ reviews' = reviews
               /\ interactions' = interactions
          ]_vars
    /\ [][(storeCall'.op = "cascade" /\ storeCall'.step = "orders"
              /\ storeResult' # "error")
            => reviews' = reviews /\ interactions' = interactions
          ]_vars

\* The deletion of u1 failed at the interactions: u1 is stored with its
\* interactions, its orders and reviews are gone.
C25_Witness ==
    /\ storeCall = [op |-> "cascade", step |-> "interactions", user |-> "u1",
                    product |-> "none"]
    /\ storeResult = "error"
    /\ cascade.step = "idle"
    /\ "u1" \in users
    /\ OrdersOf("u1") = {} /\ ReviewsOf("u1") = {}
    /\ InteractionsOf("u1") # {}
    /\ reviews # {}

----------------------------------------------------------------------------
(* Further properties of the order's life, checked under Spec *)

\* C27: for an order that is created and then changed only through
\* updateStatus, in every reachable state the status of the last timeline
\* entry equals orderStatus.
C27_LastEntryIsOrderStatus ==
    ~order.isNew =>
        /\ order.timeline # <<>>
        /\ order.timeline[Len(order.timeline)].status = order.orderStatus

----------------------------------------------------------------------------
(* Further properties of one review's life, checked under SpecReviewLife *)

\* C29: a review is created with helpful 0 and no voters; after any sequence
\* of markAsHelpful calls, by any users, its helpful count is the number of
\* distinct users in helpfulBy and helpfulBy holds no user twice.
C29_HelpfulCountsVoters ==
    \A r \in reviews :
        LET voters == {r.helpfulBy[i] : i \in 1..Len(r.helpfulBy)}
        IN  /\ r.helpful = Cardinality(voters)
            /\ Len(r.helpfulBy) = Cardinality(voters)

\* u1 and then u2 marked the review, and u1 marked it once more: two voters,
\* count 2.
C29_Witness ==
    /\ storeCall = [op |-> "markAsHelpful", user |-> "u1", product |-> "p1", voter |-> "u1"]
    /\ \E r \in reviews : r.helpfulBy = <<"u1", "u2">> /\ r.helpful = 2

----------------------------------------------------------------------------
(* Further properties of the discounted price, checked under SpecDiscount *)

\* C30: for a product with price >= 0 and a discount the schema accepts (type
\* percentage or fixed, value >= 0, any dates), the price
\* calculateDiscountedPrice returns at any time is at least 0 and at most the
\* base price.
C30_DiscountedPriceInRange ==
    (/\ quote # Undefined
     /\ product.price >= 0
     /\ product.discount # Undefined
     /\ product.discount[1].type \in {Some("percentage"), Some("fixed")}
     /\ product.discount[1].value >= 0)
        => /\ quote[1].price >= 0
           /\ quote[1].price <= 100 * product.price

====
